---- MODULE Spec2Model ----
(***************************************************************************)
(* The device-session subsystem of the prop-teststand ground server:       *)
(* the binary wire codec (libqretprop/protocol.py), the device objects     *)
(* (Devices/ESPDevice.py, Devices/SensorMonitor.py) and the registry,      *)
(* acceptor, session reader and command API of                             *)
(* DeviceControllers/deviceTools.py.                                       *)
(*                                                                         *)
(* Bytes are integers 0..255 and byte strings are sequences of them.       *)
(* Unsigned big-endian integers wider than 16 bits (the u32 timestamp and  *)
(* json length, the u64 server time, the bit pattern of a float32) are     *)
(* kept as tuples of 16-bit words, most significant first, so that no      *)
(* value leaves the range of the checker's integers.                       *)
(***************************************************************************)
EXTENDS Integers, Sequences, FiniteSets, TLC

(***************************************************************************)
(* protocol.py: constants and enumerations                                 *)
(***************************************************************************)
MAGIC_NUMBER == 5
PROTOCOL_VERSION == 1

ESTOP == 0
DISCOVERY == 1
TIMESYNC == 2
CONTROL == 3
STATUS_REQUEST == 4
STREAM_START == 5
STREAM_STOP == 6
GET_SINGLE == 7
HEARTBEAT == 8
CONFIG == 16
DATA == 17
STATUS == 18
ACK == 19
NACK == 20

PacketType == {ESTOP, DISCOVERY, TIMESYNC, CONTROL, STATUS_REQUEST, STREAM_START,
               STREAM_STOP, GET_SINGLE, HEARTBEAT, CONFIG, DATA, STATUS, ACK, NACK}

DeviceStatus == {0, 1, 2, 3}

CS_CLOSED == 0
CS_OPEN == 1
CS_ERROR == 255
ControlState == {CS_CLOSED, CS_OPEN, CS_ERROR}

UNIT_CELSIUS == 2
UNIT_UNITLESS == 255
Unit == (0 .. 15) \cup {UNIT_UNITLESS}

Byte == 0 .. 255

Min(a, b) == IF a < b THEN a ELSE b

\* Python's s[lo:hi] for 0 <= lo: the bytes at 0-based positions lo .. hi-1 that exist.
PySlice(s, lo, hi) == SubSeq(s, lo + 1, Min(hi, Len(s)))

\* Python's s[lo:]
PyTail(s, lo) == SubSeq(s, lo + 1, Len(s))

\* b"".join(ss): the byte strings of ss one after the other.
RECURSIVE Concat(_)
Concat(ss) == IF ss = << >> THEN << >> ELSE Head(ss) \o Concat(Tail(ss))

(***************************************************************************)
(* struct.pack / struct.unpack of big-endian unsigned integers.            *)
(***************************************************************************)
\* ">H"-sized pieces: one 16-bit word <-> two bytes.
WordPack(w) == << w \div 256, w % 256 >>
WordUnpack(b) == (b[1] * 256) + b[2]

\* ">I": a u32 kept as << high word, low word >>.
U32Pack(v) == WordPack(v[1]) \o WordPack(v[2])
U32Unpack(b) == << WordUnpack(SubSeq(b, 1, 2)), WordUnpack(SubSeq(b, 3, 4)) >>

\* ">Q": a u64 kept as four words.
U64Pack(v) == WordPack(v[1]) \o WordPack(v[2]) \o WordPack(v[3]) \o WordPack(v[4])
U64Unpack(b) == << WordUnpack(SubSeq(b, 1, 2)), WordUnpack(SubSeq(b, 3, 4)),
                   WordUnpack(SubSeq(b, 5, 6)), WordUnpack(SubSeq(b, 7, 8)) >>

\* The u32 with a small value n, and the value of a u32 capped at `cap`
\* (used where a length is compared with a buffer size).
U32Of(n) == << n \div 65536, n % 65536 >>
U32Capped(v, cap) == IF v[1] > 0 THEN cap ELSE Min(v[2], cap)

(***************************************************************************)
(* struct.pack / struct.unpack of ">f".  A Python float is kept as the bit *)
(* pattern of the float32 nearest to it and whether it is that float32     *)
(* exactly; packing writes the pattern, unpacking returns the float32.     *)
(***************************************************************************)
F32Pack(x) == U32Pack(x.bits)
F32Unpack(b) == [bits |-> U32Unpack(b), exact |-> TRUE]

(***************************************************************************)
(* PacketHeader: ">BBI", 6 bytes.                                          *)
(***************************************************************************)
HeaderSize == 6

PacketHeader(ptype, ts) ==
    [magic |-> MAGIC_NUMBER, version |-> PROTOCOL_VERSION,
     packet_type |-> ptype, timestamp |-> ts]

HeaderPack(h) ==
    << ((h.magic % 16) * 16) + (h.version % 16), h.packet_type >> \o U32Pack(h.timestamp)

\* PacketHeader.unpack: the error it raises, or "none".
HeaderUnpackErr(data) ==
    IF Len(data) < HeaderSize THEN "ValueError"
    ELSE IF (data[1] \div 16) % 16 # MAGIC_NUMBER THEN "ValueError"
    ELSE IF data[2] \notin PacketType THEN "ValueError"
    ELSE "none"

HeaderUnpack(data) ==
    [magic |-> (data[1] \div 16) % 16, version |-> data[1] % 16,
     packet_type |-> data[2], timestamp |-> U32Unpack(SubSeq(data, 3, 6))]

(***************************************************************************)
(* The packet classes.  A packet is a record with its class name, its      *)
(* header and the payload fields of the class.                             *)
(***************************************************************************)
SimpleCreate(ptype, ts) == [cls |-> "SimplePacket", header |-> PacketHeader(ptype, ts)]

DiscoveryCreate(ts) == [cls |-> "DiscoveryPacket", header |-> PacketHeader(DISCOVERY, ts)]

TimeSyncCreate(server_time_ms, ts) ==
    [cls |-> "TimeSyncPacket", header |-> PacketHeader(TIMESYNC, ts),
     server_time_ms |-> server_time_ms]

ControlCreate(command_id, command_state, ts) ==
    [cls |-> "ControlPacket", header |-> PacketHeader(CONTROL, ts),
     command_id |-> command_id, command_state |-> command_state]

DataCreate(sensor_id, data, unit, ts) ==
    [cls |-> "DataPacket", header |-> PacketHeader(DATA, ts),
     sensor_id |-> sensor_id, unit |-> unit, data |-> data]

StatusCreate(status, ts) ==
    [cls |-> "StatusPacket", header |-> PacketHeader(STATUS, ts), status |-> status]

ConfigCreate(config_json, ts) ==
    [cls |-> "ConfigPacket", header |-> PacketHeader(CONFIG, ts),
     config_json |-> config_json]

StreamStartCreate(frequency_hz, ts) ==
    [cls |-> "StreamStartPacket", header |-> PacketHeader(STREAM_START, ts),
     frequency_hz |-> frequency_hz]

AckCreate(ack_packet_type, is_nack, ts) ==
    [cls |-> "AckPacket", header |-> PacketHeader(IF is_nack THEN NACK ELSE ACK, ts),
     ack_packet_type |-> ack_packet_type]

\* pack() raises struct.error when a "B" field is outside 0..255.
PackRaises(p) ==
    CASE p.cls = "ControlPacket" -> p.command_id \notin Byte \/ p.command_state \notin Byte
      [] p.cls = "DataPacket" -> p.sensor_id \notin Byte \/ p.unit \notin Byte
      [] p.cls = "StatusPacket" -> p.status \notin Byte
      [] p.cls = "StreamStartPacket" -> p.frequency_hz \notin Byte
      [] p.cls = "AckPacket" -> p.ack_packet_type \notin Byte
      [] OTHER -> FALSE

Pack(p) ==
    CASE p.cls = "SimplePacket" -> HeaderPack(p.header)
      [] p.cls = "DiscoveryPacket" -> HeaderPack(p.header)
      [] p.cls = "TimeSyncPacket" -> HeaderPack(p.header) \o U64Pack(p.server_time_ms)
      [] p.cls = "ControlPacket" -> HeaderPack(p.header) \o << p.command_id, p.command_state >>
      [] p.cls = "DataPacket" -> HeaderPack(p.header) \o << p.sensor_id, p.unit >> \o F32Pack(p.data)
      [] p.cls = "StatusPacket" -> HeaderPack(p.header) \o << p.status >>
      [] p.cls = "ConfigPacket" -> HeaderPack(p.header) \o U32Pack(U32Of(Len(p.config_json))) \o p.config_json
      [] p.cls = "StreamStartPacket" -> HeaderPack(p.header) \o << p.frequency_hz >>
      [] p.cls = "AckPacket" -> HeaderPack(p.header) \o << p.ack_packet_type >>

\* The class decode_packet's packet_map gives a packet type.
PacketClass(ptype) ==
    CASE ptype = DISCOVERY -> "DiscoveryPacket"
      [] ptype = TIMESYNC -> "TimeSyncPacket"
      [] ptype = CONTROL -> "ControlPacket"
      [] ptype = DATA -> "DataPacket"
      [] ptype = STATUS -> "StatusPacket"
      [] ptype = CONFIG -> "ConfigPacket"
      [] ptype = STREAM_START -> "StreamStartPacket"
      [] ptype \in {ACK, NACK} -> "AckPacket"
      [] OTHER -> "SimplePacket"

\* bytes.decode("utf-8") of the byte strings of this model (which hold no
\* UTF-8 lead byte): it fails exactly when a byte is not ASCII.
Utf8DecodeFails(b) == \E i \in 1 .. Len(b) : b[i] >= 128

\* The payload of `data` starts after the header; struct.unpack of a slice
\* shorter than its format raises struct.error.
PayloadSlice(data, n) == PySlice(data, HeaderSize, HeaderSize + n)

\* <class>.unpack(data), after the header was unpacked without error: the
\* error it raises, or "none".
ClassUnpackErr(cls, data) ==
    CASE cls = "TimeSyncPacket" ->
            IF Len(PayloadSlice(data, 8)) < 8 THEN "struct.error" ELSE "none"
      [] cls = "ControlPacket" ->
            IF Len(PayloadSlice(data, 2)) < 2 THEN "struct.error"
            ELSE IF data[HeaderSize + 2] \notin ControlState THEN "ValueError" ELSE "none"
      [] cls = "DataPacket" ->
            IF Len(PayloadSlice(data, 6)) < 6 THEN "struct.error"
            ELSE IF data[HeaderSize + 2] \notin Unit THEN "ValueError" ELSE "none"
      [] cls = "StatusPacket" ->
            IF Len(PayloadSlice(data, 1)) < 1 THEN "struct.error"
            ELSE IF data[HeaderSize + 1] \notin DeviceStatus THEN "ValueError" ELSE "none"
      [] cls = "ConfigPacket" ->
            IF Len(PayloadSlice(data, 4)) < 4 THEN "struct.error"
            ELSE LET n == U32Capped(U32Unpack(PayloadSlice(data, 4)), Len(data))
                 IN IF Utf8DecodeFails(PySlice(data, HeaderSize + 4, HeaderSize + 4 + n))
                    THEN "ValueError" ELSE "none"
      [] cls = "StreamStartPacket" ->
            IF Len(PayloadSlice(data, 1)) < 1 THEN "struct.error" ELSE "none"
      [] cls = "AckPacket" ->
            IF Len(PayloadSlice(data, 1)) < 1 THEN "struct.error"
            ELSE IF data[HeaderSize + 1] \notin PacketType THEN "ValueError" ELSE "none"
      [] OTHER -> "none"

ClassUnpack(cls, data) ==
    LET h == HeaderUnpack(data)
    IN CASE cls = "TimeSyncPacket" ->
              [cls |-> cls, header |-> h, server_time_ms |-> U64Unpack(PayloadSlice(data, 8))]
         [] cls = "ControlPacket" ->
              [cls |-> cls, header |-> h, command_id |-> data[HeaderSize + 1],
               command_state |-> data[HeaderSize + 2]]
         [] cls = "DataPacket" ->
              [cls |-> cls, header |-> h, sensor_id |-> data[HeaderSize + 1],
               unit |-> data[HeaderSize + 2],
               data |-> F32Unpack(PySlice(data, HeaderSize + 2, HeaderSize + 6))]
         [] cls = "StatusPacket" ->
              [cls |-> cls, header |-> h, status |-> data[HeaderSize + 1]]
         [] cls = "ConfigPacket" ->
              LET n == U32Capped(U32Unpack(PayloadSlice(data, 4)), Len(data))
              IN [cls |-> cls, header |-> h,
                  config_json |-> PySlice(data, HeaderSize + 4, HeaderSize + 4 + n)]
         [] cls = "StreamStartPacket" ->
              [cls |-> cls, header |-> h, frequency_hz |-> data[HeaderSize + 1]]
         [] cls = "AckPacket" ->
              [cls |-> cls, header |-> h, ack_packet_type |-> data[HeaderSize + 1]]
         [] OTHER -> [cls |-> cls, header |-> h]

\* decode_packet(data): the error it raises ("none" when it returns).
DecodeErr(data) ==
    IF Len(data) < HeaderSize THEN "ValueError"
    ELSE IF HeaderUnpackErr(data) # "none" THEN HeaderUnpackErr(data)
    ELSE ClassUnpackErr(PacketClass(data[2]), data)

\* decode_packet(data) when it returns.
decode_packet(data) == ClassUnpack(PacketClass(data[2]), data)

(***************************************************************************)
(* The configuration JSON.  A JSON text is the three bytes "{", k, "}"     *)
(* where k names one of the configuration dictionaries below; json.loads   *)
(* of any other text (a truncated one included) raises.                    *)
(***************************************************************************)
ConfigIds == {1, 2, 3, 4, 5}

JsonText(k) == << 123, k, 125 >>

JsonLoadsFails(text) ==
    ~ (Len(text) = 3 /\ text[1] = 123 /\ text[3] = 125 /\ text[2] \in ConfigIds)

\* The dictionary json.loads returns.  `keys` are the top-level keys present;
\* `malformed` names the sensors whose details lack a required key.
ConfigDict(k) ==
    CASE k = 1 -> [keys |-> {"deviceName", "deviceType", "sensorInfo", "controls"},
                   deviceName |-> "PM1", deviceType |-> "Sensor Monitor",
                   thermocouples |-> << "TC1", "TC2" >>, pressureTransducers |-> << >>,
                   loadCells |-> << >>, current |-> << >>, resistance |-> << >>,
                   controls |-> << "AVFILL" >>, malformed |-> {}]
      [] k = 2 -> [keys |-> {"deviceName", "deviceType"},
                   deviceName |-> "CAM", deviceType |-> "Camera",
                   thermocouples |-> << >>, pressureTransducers |-> << >>,
                   loadCells |-> << >>, current |-> << >>, resistance |-> << >>,
                   controls |-> << >>, malformed |-> {}]
      [] k = 3 -> [keys |-> {"deviceType", "sensorInfo"},
                   deviceName |-> "", deviceType |-> "Sensor Monitor",
                   thermocouples |-> << "TC1" >>, pressureTransducers |-> << >>,
                   loadCells |-> << >>, current |-> << >>, resistance |-> << >>,
                   controls |-> << >>, malformed |-> {}]
      [] k = 4 -> [keys |-> {"deviceName", "deviceType", "sensorInfo", "controls"},
                   deviceName |-> "PM4", deviceType |-> "Simulated Sensor Monitor",
                   thermocouples |-> << "TC1" >>, pressureTransducers |-> << "PT1" >>,
                   loadCells |-> << >>, current |-> << >>, resistance |-> << "R1" >>,
                   controls |-> << "avvent" >>, malformed |-> {"PT1"}]
      [] k = 5 -> [keys |-> {"deviceName", "deviceType", "sensorInfo"},
                   deviceName |-> "PM5", deviceType |-> "Sensor Monitor",
                   thermocouples |-> << "TC1" >>, pressureTransducers |-> << >>,
                   loadCells |-> << >>, current |-> << >>, resistance |-> << "R1" >>,
                   controls |-> << >>, malformed |-> {}]

SensorMonitorTypes == {"Sensor Monitor", "Simulated Sensor Monitor"}

(***************************************************************************)
(* Devices/ESPDevice.py and Devices/SensorMonitor.py                       *)
(***************************************************************************)
\* ESPDevice.__init__ raises KeyError on jsonConfig["deviceName"] / ["deviceType"]
\* before it creates the heartbeat task.
ESPDeviceInitRaises(cfg) == ~ ({"deviceName", "deviceType"} \subseteq cfg.keys)

\* The attributes ESPDevice.__init__ sets.  listenerTask is declared there and
\* assigned by the code that registers the device: 0 stands for "not assigned",
\* otherwise it is the reader task, named by the object it monitors.
ESPDeviceInit(sock, address, k) ==
    [cls |-> "ESPDevice", socket |-> sock, address |-> address, jsonConfig |-> k,
     listenerTask |-> 0,
     name |-> ConfigDict(k).deviceName, type |-> ConfigDict(k).deviceType]

RangeOf(s) == {s[i] : i \in 1 .. Len(s)}

\* Python's d[name] = value on an insertion-ordered dict, keys only: a key that
\* is already present keeps its position.
RECURSIVE DictInsertAll(_, _)
DictInsertAll(keys, names) ==
    IF names = << >> THEN keys
    ELSE DictInsertAll(IF Head(names) \in RangeOf(keys) THEN keys ELSE Append(keys, Head(names)),
                       Tail(names))

\* Upper-casing of the control names of this model.
Upper(name) == IF name = "avvent" THEN "AVVENT" ELSE name

\* SensorMonitor._initializeFromConfig raises KeyError at the first sensor
\* whose details lack a key.
InitializeFromConfigRaises(cfg) == cfg.malformed # {}

\* The sensors dict in insertion order (thermocouples, pressureTransducers,
\* loadCells, current) and the controls dict with upper-cased names; each
\* sensor starts with an empty data list.
InitializeFromConfig(cfg) ==
    LET names == DictInsertAll(DictInsertAll(DictInsertAll(DictInsertAll(<< >>,
                     cfg.thermocouples), cfg.pressureTransducers), cfg.loadCells), cfg.current)
        ctl == DictInsertAll(<< >>, [i \in 1 .. Len(cfg.controls) |-> Upper(cfg.controls[i])])
    IN [sensors |-> [i \in 1 .. Len(names) |-> [name |-> names[i], data |-> << >>]],
        controls |-> ctl]

SensorMonitorInit(sock, address, k) ==
    [cls |-> "SensorMonitor", socket |-> sock, address |-> address, jsonConfig |-> k,
     listenerTask |-> 0,
     name |-> ConfigDict(k).deviceName, type |-> ConfigDict(k).deviceType,
     startTime |-> "monotonic", times |-> << >>,
     sensors |-> InitializeFromConfig(ConfigDict(k)).sensors,
     controls |-> InitializeFromConfig(ConfigDict(k)).controls]

\* What the constructor leaves behind when _initializeFromConfig raises: the
\* object exists (its heartbeat task holds it) without sensors and controls.
SensorMonitorPartial(sock, address, k) ==
    [cls |-> "SensorMonitor", socket |-> sock, address |-> address, jsonConfig |-> k,
     listenerTask |-> 0,
     name |-> ConfigDict(k).deviceName, type |-> ConfigDict(k).deviceType,
     startTime |-> "monotonic", times |-> << >>]

\* The bytes ESPDevice.heartbeat writes.
BEAT == << 66, 69, 65, 84, 10 >>

(***************************************************************************)
(* Bounds of the model and the inputs it draws.                            *)
(***************************************************************************)
\* TCP connections that are ever opened (by devices or by connectToDevice).
MaxConn == 2
\* Messages the devices send, over all connections.
MaxSend == 2
\* Writes the server makes, over all sockets.
MaxTx == 1
\* Writes the server makes to mock devices, over all sockets.
MaxMockTx == 3

Conn == 1 .. MaxConn
Addr == {"A", "B"}

\* _get_timestamp_ms() on the device and on the server.
DeviceTimestamp == U32Of(1000)
ServerTimestamps == {U32Of(2000)}

\* 23.5, which is the float32 0x41BC0000, and 0.1, which is no float32: the
\* nearest one is 0x3DCCCCCD.
F32_23_5 == [bits |-> << 16828, 0 >>, exact |-> TRUE]
F64_0_1 == [bits |-> << 15820, 52429 >>, exact |-> FALSE]

\* "CONF": the prefix connectToDevice expects before the JSON text.
CONF == << 67, 79, 78, 70 >>

\* What a device may send: encoded packets, and the text configuration of the
\* devices that connectToDevice reaches.
DevicePackets ==
    {ConfigCreate(JsonText(1), DeviceTimestamp),
     DataCreate(0, F32_23_5, UNIT_CELSIUS, DeviceTimestamp),
     AckCreate(TIMESYNC, FALSE, DeviceTimestamp),
     AckCreate(CONTROL, FALSE, DeviceTimestamp)}

DeviceMessages == {Pack(p) : p \in DevicePackets} \cup {CONF \o JsonText(1)}

(***************************************************************************)
(* State                                                                   *)
(***************************************************************************)
VARIABLES
    deviceRegistry,  \* deviceTools.deviceRegistry: address -> device object
    devices,         \* every ESPDevice / SensorMonitor object constructed, by identity
    listener,        \* per object: the _monitorSingleDevice task created for it
    heartbeats,      \* per object: the heartbeat task its constructor created
    sockets,         \* per connection: the TCP connection and the server's socket
    devSent,         \* per connection: the messages the device has sent, in order
    acceptor,        \* the tcpListener task
    connector,       \* the connectToDevice call in progress (from deviceListener)
    lastCall,        \* history: the command API call made last, where calls are recorded
    codec,           \* a use of the codec of protocol.py on its own: create, pack, decode
    mock,            \* per connection: the mock_device.py process at its far end
    caller           \* a caller of the registry getters: what its last call returned

vars == << deviceRegistry, devices, listener, heartbeats, sockets, devSent, acceptor, connector,
           lastCall, codec, mock, caller >>

\* What the actions of the server leave alone.
bystanders == << lastCall, codec, mock, caller >>

Objects == 1 .. Len(devices)

\* tx holds what each send put on the connection, in order.  writer is the
\* callback a suspended loop.sock_sendall has registered for the socket with
\* the event loop: empty, or one record with the data and the position
\* reached in it.
FreshSocket ==
    [state |-> "free", addr |-> "none", rx |-> << >>, eof |-> FALSE, reset |-> FALSE,
     closed |-> FALSE, tx |-> << >>, writer |-> << >>]

\* A reader task: its state, its local buffer, and two histories: the bytes
\* its recvs have returned and the packets it has decoded and dispatched.
NoTask == [state |-> "none", buffer |-> << >>, received |-> << >>, dispatched |-> << >>]
\* A registration that has not created the reader task yet.
TaskNotCreated == [state |-> "none", buffer |-> << >>, received |-> << >>, dispatched |-> << >>]
NewTask == [state |-> "running", buffer |-> << >>, received |-> << >>, dispatched |-> << >>]

\* A call of the command API: the function, the device object passed, and the
\* arguments (Hz for startStreaming, controlName and controlState for
\* setControl, as they are after .upper()).
NoCall == [op |-> "none", d |-> 0, Hz |-> 0, controlName |-> "", controlState |-> ""]
Call(op, d, Hz, controlName, controlState) ==
    [op |-> op, d |-> d, Hz |-> Hz, controlName |-> controlName, controlState |-> controlState]

\* The codec at rest: no packet created.  `packet` is the packet a create
\* method returned, `data` the bytes handed to decode_packet, `err` the
\* error decode_packet raised ("none" when it returned) and `decoded` the
\* packet it returned.
NoCodec == [pc |-> "idle"]

\* No mock device at the far end of a connection.
NoMock == [state |-> "none"]

\* A caller that has called no getter yet.
NoCaller == [op |-> "none"]

\* deviceRegistry[a] = d and deviceRegistry.pop(a)
RegistrySet(reg, a, d) == [x \in (DOMAIN reg) \cup {a} |-> IF x = a THEN d ELSE reg[x]]
RegistryPop(reg, a) == [x \in (DOMAIN reg) \ {a} |-> reg[x]]

Init ==
    /\ deviceRegistry = [x \in {} |-> 0]
    /\ devices = << >>
    /\ listener = << >>
    /\ heartbeats = << >>
    /\ sockets = [c \in Conn |-> FreshSocket]
    /\ devSent = [c \in Conn |-> << >>]
    /\ acceptor = [pc |-> "accept", conn |-> 0, backlog |-> << >>]
    /\ connector = [pc |-> "idle", addr |-> "none", conn |-> 0]
    /\ lastCall = NoCall
    /\ codec = NoCodec
    /\ mock = [c \in Conn |-> NoMock]
    /\ caller = NoCaller

(***************************************************************************)
(* The devices and the network                                             *)
(***************************************************************************)
RECURSIVE SumLen(_, _)
SumLen(f, S) == IF S = {} THEN 0
                ELSE LET c == CHOOSE x \in S : TRUE IN Len(f[c]) + SumLen(f, S \ {c})

\* A device at address a opens a TCP connection to the listening port.
DeviceConnect(c, a) ==
    /\ sockets[c].state = "free"
    /\ \A b \in Conn : b < c => sockets[b].state # "free"
    /\ acceptor.pc # "cancelled"
    /\ sockets' = [sockets EXCEPT ![c].state = "backlog", ![c].addr = a]
    /\ acceptor' = [acceptor EXCEPT !.backlog = Append(@, c)]
    /\ UNCHANGED << deviceRegistry, devices, listener, heartbeats, devSent, connector >>

\* The device end of connection c sends one message.
DeviceSend(c, msg, budget) ==
    /\ sockets[c].state \in {"backlog", "accepted", "connected"}
    /\ ~ sockets[c].eof /\ ~ sockets[c].reset
    /\ SumLen(devSent, Conn) < budget
    /\ sockets' = [sockets EXCEPT ![c].rx = @ \o msg]
    /\ devSent' = [devSent EXCEPT ![c] = Append(@, msg)]
    /\ UNCHANGED << deviceRegistry, devices, listener, heartbeats, acceptor, connector >>

\* The device closes its end: the server reads EOF once rx is drained.
DeviceClose(c) ==
    /\ sockets[c].state \in {"backlog", "accepted", "connected"}
    /\ ~ sockets[c].eof /\ ~ sockets[c].reset
    /\ sockets' = [sockets EXCEPT ![c].eof = TRUE]
    /\ UNCHANGED << deviceRegistry, devices, listener, heartbeats, devSent, acceptor, connector >>

\* The connection breaks: the server's next recv or send on it raises.
ConnectionReset(c) ==
    /\ sockets[c].state \in {"accepted", "connected"}
    /\ ~ sockets[c].reset
    /\ sockets' = [sockets EXCEPT ![c].reset = TRUE]
    /\ UNCHANGED << deviceRegistry, devices, listener, heartbeats, devSent, acceptor, connector >>

\* The sizes loop.sock_recv(sock, size) may return data with.  TCP may hand
\* over any prefix of what has arrived (seg = "any"); a specification that is
\* not about framing takes only the runs in which every recv returns all the
\* bytes that have arrived (seg = "whole").
RecvChunks(c, size, seg) ==
    IF seg = "any" THEN 1 .. Min(Len(sockets[c].rx), size)
    ELSE {Min(Len(sockets[c].rx), size)} \ {0}
RecvEOF(c) == sockets[c].rx = << >> /\ sockets[c].eof /\ ~ sockets[c].reset
RecvRaises(c) == sockets[c].reset
SendRaises(c) == sockets[c].reset \/ sockets[c].closed

\* The bytes written on socket c so far, write by write.
RECURSIVE CountTx(_)
CountTx(S) == IF S = {} THEN 0
              ELSE LET c == CHOOSE x \in S : TRUE IN Len(sockets[c].tx) + CountTx(S \ {c})
\* The writes allowed: MaxTx, and MaxMockTx in the runs with mock devices.
TxLimit == IF \E c \in Conn : mock[c].state # "none" THEN MaxMockTx ELSE MaxTx
TxBudget == CountTx(Conn) < TxLimit

(***************************************************************************)
(* deviceTools.tcpListener                                                 *)
(***************************************************************************)
\* await loop.sock_accept(server_socket): the oldest pending connection.
tcpListenerAccept ==
    /\ acceptor.pc = "accept"
    /\ acceptor.backlog # << >>
    /\ LET c == Head(acceptor.backlog)
       IN /\ sockets' = [sockets EXCEPT ![c].state = "accepted"]
          /\ acceptor' = [pc |-> "recv", conn |-> c, backlog |-> Tail(acceptor.backlog)]
    /\ UNCHANGED << deviceRegistry, devices, listener, heartbeats, devSent, connector >>

\* What the body of the try block does with the bytes of its one sock_recv:
\*   "raise"            an exception before any object is constructed
\*   "ignore"           a packet that is not CONFIG: the if has no else
\*   "esp"              an ESPDevice is constructed and registered
\*   "monitor"          an ESPDevice, then a SensorMonitor that is registered
\*   "monitor_raises"   the SensorMonitor constructor raises after both
\*                      constructors created their heartbeat task
HandshakeOutcome(config_bytes) ==
    IF DecodeErr(config_bytes) # "none" THEN "raise"
    ELSE LET packet == decode_packet(config_bytes)
         IN IF packet.header.packet_type # CONFIG THEN "ignore"
            ELSE IF JsonLoadsFails(packet.config_json) THEN "raise"
            ELSE LET cfg == ConfigDict(packet.config_json[2])
                 IN IF ESPDeviceInitRaises(cfg) THEN "raise"
                    ELSE IF cfg.deviceType \notin SensorMonitorTypes THEN "esp"
                    ELSE IF InitializeFromConfigRaises(cfg) THEN "monitor_raises"
                    ELSE "monitor"

\* The configuration id of a CONFIG packet that json.loads accepts.
ConfigIdOf(config_bytes) == decode_packet(config_bytes).config_json[2]

\* The rest of one iteration of the accept loop, from the return of
\* sock_recv(client_socket, 2048) with config_bytes to the next await.
tcpListenerRegister(c, config_bytes) ==
    LET outcome == HandshakeOutcome(config_bytes)
        deviceIP == sockets[c].addr
        n == Len(devices)
    IN CASE outcome = "raise" ->
              /\ acceptor' = [acceptor EXCEPT !.pc = "sleep"]
              /\ UNCHANGED << deviceRegistry, devices, listener, heartbeats >>
         [] outcome = "ignore" ->
              /\ acceptor' = [acceptor EXCEPT !.pc = "accept"]
              /\ UNCHANGED << deviceRegistry, devices, listener, heartbeats >>
         [] outcome = "esp" ->
              LET k == ConfigIdOf(config_bytes)
              IN /\ devices' = Append(devices,
                        [ESPDeviceInit(c, deviceIP, k) EXCEPT !.listenerTask = n + 1])
                 /\ heartbeats' = Append(heartbeats, "running")
                 /\ listener' = Append(listener, NewTask)
                 /\ deviceRegistry' = RegistrySet(deviceRegistry, deviceIP, n + 1)
                 /\ acceptor' = [acceptor EXCEPT !.pc = "accept"]
         [] outcome = "monitor" ->
              LET k == ConfigIdOf(config_bytes)
              IN /\ devices' = devices \o
                        << ESPDeviceInit(c, deviceIP, k),
                           [SensorMonitorInit(c, deviceIP, k) EXCEPT !.listenerTask = n + 2] >>
                 /\ heartbeats' = heartbeats \o << "running", "running" >>
                 /\ listener' = listener \o << NoTask, NewTask >>
                 /\ deviceRegistry' = RegistrySet(deviceRegistry, deviceIP, n + 2)
                 /\ acceptor' = [acceptor EXCEPT !.pc = "accept"]
         [] outcome = "monitor_raises" ->
              LET k == ConfigIdOf(config_bytes)
              IN /\ devices' = devices \o
                        << ESPDeviceInit(c, deviceIP, k), SensorMonitorPartial(c, deviceIP, k) >>
                 /\ heartbeats' = heartbeats \o << "running", "running" >>
                 /\ listener' = listener \o << NoTask, NoTask >>
                 /\ acceptor' = [acceptor EXCEPT !.pc = "sleep"]
                 /\ UNCHANGED deviceRegistry

\* sock_recv returns n bytes.
tcpListenerRecvData(seg) ==
    /\ acceptor.pc = "recv"
    /\ \E n \in RecvChunks(acceptor.conn, 2048, seg) :
          /\ sockets' = [sockets EXCEPT ![acceptor.conn].rx = PyTail(@, n)]
          /\ tcpListenerRegister(acceptor.conn, SubSeq(sockets[acceptor.conn].rx, 1, n))
    /\ UNCHANGED << devSent, connector >>

\* sock_recv returns b"" (the device closed before sending anything more).
tcpListenerRecvEOF ==
    /\ acceptor.pc = "recv"
    /\ RecvEOF(acceptor.conn)
    /\ tcpListenerRegister(acceptor.conn, << >>)
    /\ UNCHANGED << sockets, devSent, connector >>

\* sock_recv raises: except Exception, elog, sleep.
tcpListenerRecvRaises ==
    /\ acceptor.pc = "recv"
    /\ RecvRaises(acceptor.conn)
    /\ acceptor' = [acceptor EXCEPT !.pc = "sleep"]
    /\ UNCHANGED << deviceRegistry, devices, listener, heartbeats, sockets, devSent, connector >>

\* await asyncio.sleep(0.1) returns; back to the head of the loop.
tcpListenerWake ==
    /\ acceptor.pc = "sleep"
    /\ acceptor' = [acceptor EXCEPT !.pc = "accept"]
    /\ UNCHANGED << deviceRegistry, devices, listener, heartbeats, sockets, devSent, connector >>

(***************************************************************************)
(* deviceTools._monitorSingleDevice                                        *)
(***************************************************************************)
\* "while len(buffer) >= 10:  # Minimum packet size"
MinPacketSize == 10

\* A dispatch that takes the sample time from the packet's timestamp.
DispatchPacketTime(device, packet) ==
    IF packet.header.packet_type = DATA /\ device.cls = "SensorMonitor"
    THEN IF packet.sensor_id < Len(device.sensors)
         THEN LET i == packet.sensor_id + 1
                  new == Append(device.sensors[i].data, packet.data)
              IN [device EXCEPT
                    !.sensors[i].data = new,
                    !.times = IF @ = << >> \/ Len(@) < Len(new)
                              THEN Append(@, "packet.header.timestamp") ELSE @]
         ELSE device
    ELSE device

\* A dispatch that stores a reading with a sensor_id past the last sensor in
\* the last sensor.
DispatchClamped(device, packet) ==
    IF packet.header.packet_type = DATA /\ device.cls = "SensorMonitor"
    THEN IF device.sensors # << >>
         THEN LET i == Min(packet.sensor_id + 1, Len(device.sensors))
                  new == Append(device.sensors[i].data, packet.data)
              IN [device EXCEPT
                    !.sensors[i].data = new,
                    !.times = IF @ = << >> \/ Len(@) < Len(new)
                              THEN Append(@, "monotonic") ELSE @]
         ELSE device
    ELSE device

\* A dispatch that appends a sample time for every reading it stores.
DispatchAlwaysTimes(device, packet) ==
    IF packet.header.packet_type = DATA /\ device.cls = "SensorMonitor"
    THEN IF packet.sensor_id < Len(device.sensors)
         THEN LET i == packet.sensor_id + 1
                  new == Append(device.sensors[i].data, packet.data)
              IN [device EXCEPT
                    !.sensors[i].data = new,
                    !.times = Append(@, "monotonic")]
         ELSE device
    ELSE device

\* The if / elif chain on the packet type: only DATA on a SensorMonitor
\* changes the device; STATUS, ACK and NACK are logged; the rest falls through.
Dispatch(device, packet) ==
    IF packet.header.packet_type = DATA /\ device.cls = "SensorMonitor"
    THEN IF packet.sensor_id < Len(device.sensors)
         THEN LET i == packet.sensor_id + 1
                  new == Append(device.sensors[i].data, packet.data)
              IN [device EXCEPT
                    !.sensors[i].data = new,
                    !.times = IF @ = << >> \/ Len(@) < Len(new)
                              THEN Append(@, "monotonic") ELSE @]
         ELSE device
    ELSE device

\* The inner while loop, run on the buffer after a recv until it exits:
\* a decoded packet is dispatched and its packed size removed; ValueError
\* breaks; any other exception drops one byte.
RECURSIVE DecodeLoop(_, _, _)
DecodeLoop(buffer, device, dispatched) ==
    IF Len(buffer) < MinPacketSize
    THEN [buffer |-> buffer, device |-> device, dispatched |-> dispatched]
    ELSE LET err == DecodeErr(buffer)
         IN IF err = "ValueError"
            THEN [buffer |-> buffer, device |-> device, dispatched |-> dispatched]
            ELSE IF err # "none"
            THEN DecodeLoop(PyTail(buffer, 1), device, dispatched)
            ELSE LET packet == decode_packet(buffer)
                     packet_size == Len(Pack(packet))
                 IN DecodeLoop(PyTail(buffer, packet_size),
                               Dispatch(device, packet), Append(dispatched, packet))

\* sock_recv(device.socket, 1024) returns n bytes: they are appended to the
\* buffer and the inner loop runs.
monitorRecvData(d, seg) ==
    /\ listener[d].state = "running"
    /\ LET c == devices[d].socket
       IN \E n \in RecvChunks(c, 1024, seg) :
            LET r == DecodeLoop(listener[d].buffer \o SubSeq(sockets[c].rx, 1, n),
                                devices[d], listener[d].dispatched)
            IN /\ sockets' = [sockets EXCEPT ![c].rx = PyTail(@, n)]
               /\ devices' = [devices EXCEPT ![d] = r.device]
               /\ listener' = [listener EXCEPT ![d].buffer = r.buffer,
                                               ![d].received = @ \o SubSeq(sockets[c].rx, 1, n),
                                               ![d].dispatched = r.dispatched]
    /\ UNCHANGED << deviceRegistry, heartbeats, devSent, acceptor, connector >>

\* sock_recv returns b"": "disconnected" is logged and the loop is left by
\* break; the function returns.
monitorRecvEOF(d) ==
    /\ listener[d].state = "running"
    /\ RecvEOF(devices[d].socket)
    /\ listener' = [listener EXCEPT ![d].state = "returned"]
    /\ UNCHANGED << deviceRegistry, devices, heartbeats, sockets, devSent, acceptor, connector >>

\* A reader whose except clause empties the registry.
monitorRecvRaisesClearsRegistry(d) ==
    /\ listener[d].state = "running"
    /\ RecvRaises(devices[d].socket)
    /\ listener' = [listener EXCEPT ![d].state = "returned"]
    /\ deviceRegistry' = [x \in {} |-> 0]
    /\ UNCHANGED << devices, heartbeats, sockets, devSent, acceptor, connector >>

\* sock_recv raises: the except clause pops device.address from the registry
\* when it is a key; the function returns.
monitorRecvRaises(d) ==
    /\ listener[d].state = "running"
    /\ RecvRaises(devices[d].socket)
    /\ listener' = [listener EXCEPT ![d].state = "returned"]
    /\ deviceRegistry' = IF devices[d].address \in DOMAIN deviceRegistry
                         THEN RegistryPop(deviceRegistry, devices[d].address)
                         ELSE deviceRegistry
    /\ UNCHANGED << devices, heartbeats, sockets, devSent, acceptor, connector >>

(***************************************************************************)
(* ESPDevice.heartbeat                                                     *)
(***************************************************************************)
\* One turn of the loop: self.socket.sendall(b"BEAT\n"), then sleep(5).
\* BrokenPipeError and ConnectionResetError are suppressed; the OSError of a
\* socket that was closed locally is not, and ends the task.
heartbeat(d) ==
    /\ heartbeats[d] = "running"
    /\ LET c == devices[d].socket
       IN IF sockets[c].closed
          THEN /\ heartbeats' = [heartbeats EXCEPT ![d] = "raised"]
               /\ UNCHANGED sockets
          ELSE IF sockets[c].reset
          THEN UNCHANGED << heartbeats, sockets >>
          ELSE /\ TxBudget
               /\ sockets' = [sockets EXCEPT ![c].tx = Append(@, BEAT)]
               /\ UNCHANGED heartbeats
    /\ UNCHANGED << deviceRegistry, devices, listener, devSent, acceptor, connector >>

(***************************************************************************)
(* The command API.  A caller holds a device it once took from the         *)
(* registry.                                                               *)
(***************************************************************************)
Handles == {d \in Objects : listener[d].state # "none"}

\* try: sock_sendall(device.socket, packed)  except Exception: pop the
\* address from the registry when it is a key.
SendOrRemove(d, packed) ==
    LET c == devices[d].socket
    IN IF SendRaises(c)
       THEN /\ deviceRegistry' = IF devices[d].address \in DOMAIN deviceRegistry
                                 THEN RegistryPop(deviceRegistry, devices[d].address)
                                 ELSE deviceRegistry
            /\ UNCHANGED sockets
       ELSE /\ TxBudget
            /\ sockets' = [sockets EXCEPT ![c].tx = Append(@, packed)]
            /\ UNCHANGED deviceRegistry

getSingle(d) ==
    /\ d \in Handles
    /\ \E ts \in ServerTimestamps : SendOrRemove(d, Pack(SimpleCreate(GET_SINGLE, ts)))
    /\ UNCHANGED << devices, listener, heartbeats, devSent, acceptor, connector >>

stopStreaming(d) ==
    /\ d \in Handles
    /\ \E ts \in ServerTimestamps : SendOrRemove(d, Pack(SimpleCreate(STREAM_STOP, ts)))
    /\ UNCHANGED << devices, listener, heartbeats, devSent, acceptor, connector >>

\* "if not Hz or Hz < 1 or Hz > 1000: return"
MaxStreamHz == 1000

\* A startStreaming whose guard tests only the upper limit.
startStreamingNoLowerLimit(d, Hz) ==
    /\ d \in Handles
    /\ IF Hz > MaxStreamHz
       THEN UNCHANGED << deviceRegistry, sockets >>
       ELSE \E ts \in ServerTimestamps :
              IF PackRaises(StreamStartCreate(Hz, ts))
              THEN /\ deviceRegistry' = IF devices[d].address \in DOMAIN deviceRegistry
                                        THEN RegistryPop(deviceRegistry, devices[d].address)
                                        ELSE deviceRegistry
                   /\ UNCHANGED sockets
              ELSE SendOrRemove(d, Pack(StreamStartCreate(Hz, ts)))
    /\ UNCHANGED << devices, listener, heartbeats, devSent, acceptor, connector >>

\* StreamStartPacket.pack() raises inside the try block when Hz does not fit
\* one byte, and the except clause treats it like a failed send.
startStreaming(d, Hz) ==
    /\ d \in Handles
    /\ IF Hz < 1 \/ Hz > MaxStreamHz
       THEN UNCHANGED << deviceRegistry, sockets >>
       ELSE \E ts \in ServerTimestamps :
              IF PackRaises(StreamStartCreate(Hz, ts))
              THEN /\ deviceRegistry' = IF devices[d].address \in DOMAIN deviceRegistry
                                        THEN RegistryPop(deviceRegistry, devices[d].address)
                                        ELSE deviceRegistry
                   /\ UNCHANGED sockets
              ELSE SendOrRemove(d, Pack(StreamStartCreate(Hz, ts)))
    /\ UNCHANGED << devices, listener, heartbeats, devSent, acceptor, connector >>

\* Python's list.index, 0-based.
IndexOf(names, name) == (CHOOSE i \in 1 .. Len(names) : names[i] = name) - 1

\* A setControl that numbers the controls from 1 instead of from 0.
setControlFromOne(d, controlName, controlState) ==
    /\ d \in Handles
    /\ devices[d].cls = "SensorMonitor"
    /\ IF controlName \notin RangeOf(devices[d].controls)
       THEN UNCHANGED << deviceRegistry, sockets >>
       ELSE IF controlState \notin {"OPEN", "CLOSE"}
       THEN UNCHANGED << deviceRegistry, sockets >>
       ELSE LET command_id == IndexOf(devices[d].controls, controlName) + 1
                state == IF controlState = "OPEN" THEN CS_OPEN ELSE CS_CLOSED
            IN \E ts \in ServerTimestamps :
                  SendOrRemove(d, Pack(ControlCreate(command_id, state, ts)))
    /\ UNCHANGED << devices, listener, heartbeats, devSent, acceptor, connector >>

\* controlName and controlState arrive upper-cased here.
setControl(d, controlName, controlState) ==
    /\ d \in Handles
    /\ devices[d].cls = "SensorMonitor"
    /\ IF controlName \notin RangeOf(devices[d].controls)
       THEN UNCHANGED << deviceRegistry, sockets >>
       ELSE IF controlState \notin {"OPEN", "CLOSE"}
       THEN UNCHANGED << deviceRegistry, sockets >>
       ELSE LET command_id == IndexOf(devices[d].controls, controlName)
                state == IF controlState = "OPEN" THEN CS_OPEN ELSE CS_CLOSED
            IN \E ts \in ServerTimestamps :
                  SendOrRemove(d, Pack(ControlCreate(command_id, state, ts)))
    /\ UNCHANGED << devices, listener, heartbeats, devSent, acceptor, connector >>

\* "STATUS".encode("utf-8")
STATUS_TEXT == << 83, 84, 65, 84, 85, 83 >>

\* getStatus: device.socket.sendall(b"STATUS"); an exception goes to the caller.
getStatus(d) ==
    /\ d \in Handles
    /\ LET c == devices[d].socket
       IN IF SendRaises(c)
          THEN UNCHANGED sockets
          ELSE /\ TxBudget
               /\ sockets' = [sockets EXCEPT ![c].tx = Append(@, STATUS_TEXT)]
    /\ UNCHANGED << deviceRegistry, devices, listener, heartbeats, devSent, acceptor, connector >>

(***************************************************************************)
(* deviceTools.connectToDevice, as deviceListener calls it for the sender  *)
(* of an SSDP response (an exception it raises is caught and logged there) *)
(***************************************************************************)
\* "if deviceIP in deviceRegistry: return", else a socket is created and
\* sock_connect awaited.
connectToDeviceCall(c, a) ==
    /\ connector.pc = "idle"
    /\ sockets[c].state = "free"
    /\ \A b \in Conn : b < c => sockets[b].state # "free"
    /\ IF a \in DOMAIN deviceRegistry
       THEN UNCHANGED << sockets, connector >>
       ELSE /\ sockets' = [sockets EXCEPT ![c].state = "connecting", ![c].addr = a]
            /\ connector' = [pc |-> "connect", addr |-> a, conn |-> c]
    /\ UNCHANGED << deviceRegistry, devices, listener, heartbeats, devSent, acceptor >>

\* sock_connect returns; sock_recv(deviceSocket, 2048) is awaited.
connectToDeviceConnected ==
    /\ connector.pc = "connect"
    /\ sockets' = [sockets EXCEPT ![connector.conn].state = "connected"]
    /\ connector' = [connector EXCEPT !.pc = "recv"]
    /\ UNCHANGED << deviceRegistry, devices, listener, heartbeats, devSent, acceptor >>

\* What the code after sock_recv does with `config`:
\*   "raise"          before any object is constructed
\*   "monitor"        ESPDevice.fromConfigBytes returns a SensorMonitor
\*   "monitor_raises" the SensorMonitor constructor raises after creating
\*                    its heartbeat task
\* A prefix other than "CONF" is logged and the code goes on.
ConnectOutcome(config) ==
    IF Utf8DecodeFails(PySlice(config, 0, 4)) THEN "raise"
    ELSE IF Utf8DecodeFails(PyTail(config, 4)) THEN "raise"
    ELSE IF JsonLoadsFails(PyTail(config, 4)) THEN "raise"
    ELSE LET cfg == ConfigDict(PyTail(config, 4)[2])
         IN IF "deviceType" \notin cfg.keys THEN "raise"
            ELSE IF cfg.deviceType \notin SensorMonitorTypes THEN "raise"
            ELSE IF ESPDeviceInitRaises(cfg) THEN "raise"
            ELSE IF InitializeFromConfigRaises(cfg) THEN "monitor_raises"
            ELSE "monitor"

connectToDeviceRegister(c, config) ==
    LET outcome == ConnectOutcome(config)
        deviceIP == connector.addr
        n == Len(devices)
    IN /\ connector' = [pc |-> "idle", addr |-> "none", conn |-> 0]
       /\ CASE outcome = "raise" ->
                 UNCHANGED << deviceRegistry, devices, listener, heartbeats >>
            [] outcome = "monitor" ->
                 LET k == PyTail(config, 4)[2]
                 IN /\ devices' = Append(devices,
                           [SensorMonitorInit(c, deviceIP, k) EXCEPT !.listenerTask = n + 1])
                    /\ heartbeats' = Append(heartbeats, "running")
                    /\ listener' = Append(listener, NewTask)
                    /\ deviceRegistry' = RegistrySet(deviceRegistry, deviceIP, n + 1)
            [] outcome = "monitor_raises" ->
                 LET k == PyTail(config, 4)[2]
                 IN /\ devices' = Append(devices, SensorMonitorPartial(c, deviceIP, k))
                    /\ heartbeats' = Append(heartbeats, "running")
                    /\ listener' = Append(listener, NoTask)
                    /\ UNCHANGED deviceRegistry

connectToDeviceRecvData(seg) ==
    /\ connector.pc = "recv"
    /\ \E n \in RecvChunks(connector.conn, 2048, seg) :
          /\ sockets' = [sockets EXCEPT ![connector.conn].rx = PyTail(@, n)]
          /\ connectToDeviceRegister(connector.conn, SubSeq(sockets[connector.conn].rx, 1, n))
    /\ UNCHANGED << devSent, acceptor >>

connectToDeviceRecvEOF ==
    /\ connector.pc = "recv"
    /\ RecvEOF(connector.conn)
    /\ connectToDeviceRegister(connector.conn, << >>)
    /\ UNCHANGED << sockets, devSent, acceptor >>

connectToDeviceRecvRaises ==
    /\ connector.pc = "recv"
    /\ RecvRaises(connector.conn)
    /\ connector' = [pc |-> "idle", addr |-> "none", conn |-> 0]
    /\ UNCHANGED << deviceRegistry, devices, listener, heartbeats, sockets, devSent, acceptor >>

(***************************************************************************)
(* Sends that the kernel takes in parts.  The actions above take the runs  *)
(* in which every send puts all of its data on the connection; here        *)
(* sock.send may take any part of it, as it does on a non-blocking TCP      *)
(* socket whose send buffer is nearly full.                                 *)
(***************************************************************************)
\* Sends made on all sockets, a bound of the model.
MaxChunks == 3
ChunkBudget == CountTx(Conn) < MaxChunks

\* loop.sock_sendall(sock, data) up to its return or first suspension:
\* n = sock.send(data), 0 standing for BlockingIOError.  With everything
\* sent it returns; otherwise it registers a writer for the socket, which
\* replaces and cancels the one registered there, and awaits its future.
sockSendallStart(c, data) ==
    \E n \in 0 .. Len(data) :
        sockets' = [sockets EXCEPT
                      ![c].tx = IF n = 0 THEN @ ELSE Append(@, SubSeq(data, 1, n)),
                      ![c].writer = IF n = Len(data) THEN @
                                    ELSE << [data |-> data, pos |-> n] >>]

\* The socket is writable and the event loop runs the registered writer:
\* n = sock.send(view[pos:]); at the end of the data the future is resolved
\* and the writer removed.
sockSendallReady(c) ==
    /\ sockets[c].writer # << >>
    /\ ~ SendRaises(c)
    /\ ChunkBudget
    /\ LET w == sockets[c].writer[1]
       IN \E n \in 1 .. (Len(w.data) - w.pos) :
            sockets' = [sockets EXCEPT
                          ![c].tx = Append(@, SubSeq(w.data, w.pos + 1, w.pos + n)),
                          ![c].writer = IF w.pos + n = Len(w.data) THEN << >>
                                        ELSE << [w EXCEPT !.pos = w.pos + n] >>]
    /\ UNCHANGED << deviceRegistry, devices, listener, heartbeats, devSent, acceptor, connector >>

\* getSingle on a connection that is up: the packet goes to sock_sendall.
getSingleSendall(d) ==
    /\ d \in Handles
    /\ ~ SendRaises(devices[d].socket)
    /\ ChunkBudget
    /\ \E ts \in ServerTimestamps :
          sockSendallStart(devices[d].socket, Pack(SimpleCreate(GET_SINGLE, ts)))
    /\ UNCHANGED << deviceRegistry, devices, listener, heartbeats, devSent, acceptor, connector >>

\* One turn of the heartbeat loop on a connection that is up:
\* socket.sendall(b"BEAT\n") on the non-blocking socket sends until the
\* kernel takes no more; short of the end it raises BlockingIOError, which
\* is not among the suppressed exceptions and ends the task.
heartbeatSendall(d) ==
    /\ heartbeats[d] = "running"
    /\ ~ SendRaises(devices[d].socket)
    /\ ChunkBudget
    /\ \E n \in 0 .. Len(BEAT) :
          /\ sockets' = [sockets EXCEPT
                           ![devices[d].socket].tx =
                               IF n = 0 THEN @ ELSE Append(@, SubSeq(BEAT, 1, n))]
          /\ heartbeats' = IF n = Len(BEAT) THEN heartbeats
                           ELSE [heartbeats EXCEPT ![d] = "raised"]
    /\ UNCHANGED << deviceRegistry, devices, listener, devSent, acceptor, connector >>

(***************************************************************************)
(* mylogging: a log call that fails.  _publishLog raises ValueError when   *)
(* redisClient is None, and redisClient.publish raises                     *)
(* redis.exceptions.ConnectionError when the server cannot be reached.     *)
(***************************************************************************)
\* sock_recv returns n bytes and the ml.slog("Received ...") that follows
\* "buffer += data" raises.  The call stands outside the inner try, so the
\* exception reaches the outer except clause, whose first statement is
\* ml.elog: when that raises too the task ends with the exception, otherwise
\* the address is popped from the registry and the function returns.  The
\* inner loop is not run on the buffer.
monitorRecvDataLogRaises(d, seg) ==
    /\ listener[d].state = "running"
    /\ LET c == devices[d].socket
       IN \E n \in RecvChunks(c, 1024, seg) :
            /\ sockets' = [sockets EXCEPT ![c].rx = PyTail(@, n)]
            /\ \E elogRaises \in BOOLEAN :
                 /\ listener' = [listener EXCEPT
                                   ![d].state = IF elogRaises THEN "raised" ELSE "returned",
                                   ![d].buffer = @ \o SubSeq(sockets[c].rx, 1, n),
                                   ![d].received = @ \o SubSeq(sockets[c].rx, 1, n)]
                 /\ deviceRegistry' =
                       IF ~ elogRaises /\ devices[d].address \in DOMAIN deviceRegistry
                       THEN RegistryPop(deviceRegistry, devices[d].address)
                       ELSE deviceRegistry
    /\ UNCHANGED << devices, heartbeats, devSent, acceptor, connector >>

(***************************************************************************)
(* protocol.py used on its own: a packet is made by a create method,       *)
(* packed, and the bytes, a proper prefix of them, or the bytes with       *)
(* another version in the header, are given to decode_packet.              *)
(***************************************************************************)
\* The packets the create methods return, for a choice of their arguments:
\* every packet type, the ends of the byte range, a float that is a float32
\* and one that is not, an empty and two JSON texts.
CreatedPackets ==
    LET ts == DeviceTimestamp
    IN {SimpleCreate(t, ts) : t \in PacketType}
       \cup {DiscoveryCreate(ts)}
       \cup {TimeSyncCreate(ms, ts) : ms \in {<< 0, 0, 0, 0 >>, << 0, 402, 29344, 4096 >>}}
       \cup {ControlCreate(i, st, ts) : i \in {0, 255}, st \in ControlState}
       \cup {DataCreate(i, x, u, ts) : i \in {0, 255}, x \in {F32_23_5, F64_0_1},
                                       u \in {UNIT_CELSIUS, UNIT_UNITLESS}}
       \cup {StatusCreate(st, ts) : st \in DeviceStatus}
       \cup {ConfigCreate(j, ts) : j \in {<< >>, JsonText(1), JsonText(4)}}
       \cup {StreamStartCreate(hz, ts) : hz \in {1, 255}}
       \cup {AckCreate(t, n, ts) : t \in {TIMESYNC, CONTROL, CONFIG, NACK}, n \in BOOLEAN}

\* The 4-bit version values other than the current one.
OtherVersions == (0 .. 15) \ {PROTOCOL_VERSION}

\* <class>.create(...)
codecCreate ==
    /\ codec.pc = "idle"
    /\ \E p \in CreatedPackets : codec' = [pc |-> "created", packet |-> p]
    /\ UNCHANGED << deviceRegistry, devices, listener, heartbeats, sockets, devSent, acceptor,
                    connector, lastCall, mock, caller >>

\* packet.pack()
codecPack ==
    /\ codec.pc = "created"
    /\ ~ PackRaises(codec.packet)
    /\ codec' = [pc |-> "packed", input |-> "packed", packet |-> codec.packet,
                 data |-> Pack(codec.packet)]
    /\ UNCHANGED << deviceRegistry, devices, listener, heartbeats, sockets, devSent, acceptor,
                    connector, lastCall, mock, caller >>

\* Only the first k bytes of the packet have arrived, k less than its size.
codecPrefix ==
    /\ codec.pc = "packed"
    /\ codec.input = "packed"
    /\ \E k \in 0 .. (Len(codec.data) - 1) :
          codec' = [codec EXCEPT !.input = "prefix", !.data = SubSeq(codec.data, 1, k)]
    /\ UNCHANGED << deviceRegistry, devices, listener, heartbeats, sockets, devSent, acceptor,
                    connector, lastCall, mock, caller >>

\* The same packet as a peer with another protocol version packs it: the
\* low four bits of the first byte hold that version.
codecOtherVersion ==
    /\ codec.pc = "packed"
    /\ codec.input = "packed"
    /\ \E v \in OtherVersions :
          codec' = [codec EXCEPT
                      !.input = "other version",
                      !.data = << ((codec.data[1] \div 16) * 16) + v >> \o Tail(codec.data)]
    /\ UNCHANGED << deviceRegistry, devices, listener, heartbeats, sockets, devSent, acceptor,
                    connector, lastCall, mock, caller >>

\* decode_packet(data): it raises err or returns the packet.
codecDecode ==
    /\ codec.pc = "packed"
    /\ codec' = IF DecodeErr(codec.data) # "none"
                THEN [pc |-> "decoded", input |-> codec.input, packet |-> codec.packet,
                      data |-> codec.data, err |-> DecodeErr(codec.data)]
                ELSE [pc |-> "decoded", input |-> codec.input, packet |-> codec.packet,
                      data |-> codec.data, err |-> "none",
                      decoded |-> decode_packet(codec.data)]
    /\ UNCHANGED << deviceRegistry, devices, listener, heartbeats, sockets, devSent, acceptor,
                    connector, lastCall, mock, caller >>

\* The result is dropped.
codecDone ==
    /\ codec.pc = "decoded"
    /\ codec' = NoCodec
    /\ UNCHANGED << deviceRegistry, devices, listener, heartbeats, sockets, devSent, acceptor,
                    connector, lastCall, mock, caller >>

(***************************************************************************)
(* A packet with a type code that PacketType does not assign.              *)
(***************************************************************************)
\* A type code outside PacketType.
UNASSIGNED_TYPE == 99

\* The header-only packet of that type as a device packs it.
UnknownTypePacket == << (MAGIC_NUMBER * 16) + PROTOCOL_VERSION, UNASSIGNED_TYPE >>
                        \o U32Pack(DeviceTimestamp)

(***************************************************************************)
(* mock_device.py: MockSensorDevice at the far end of a connection.        *)
(* `read` counts the server's writes its sock_recv calls have returned,    *)
(* `buffer` is the local buffer of handle_commands and `handled` the       *)
(* packets its if / elif chain has been through.                           *)
(***************************************************************************)
\* The controls of the configuration the mock device sends.
MockConfigId == 1
MockControls == ConfigDict(MockConfigId).controls

\* "status = StatusPacket.create(DeviceStatus.ACTIVE)"
DS_ACTIVE == 1

\* connect_to_server: sock_connect to the server's listening port.
mockConnect(c, a) ==
    /\ mock[c].state = "none"
    /\ DeviceConnect(c, a)
    /\ mock' = [mock EXCEPT ![c] = [state |-> "connected"]]
    /\ UNCHANGED << lastCall, codec, caller >>

\* send_config, then asyncio.create_task(self.handle_commands()).
mockSendConfig(c) ==
    /\ mock[c].state = "connected"
    /\ DeviceSend(c, Pack(ConfigCreate(JsonText(MockConfigId), DeviceTimestamp)), MaxSend)
    /\ mock' = [mock EXCEPT ![c] = [state |-> "listening", read |-> 0, buffer |-> << >>,
                                    handled |-> << >>]]
    /\ UNCHANGED << lastCall, codec, caller >>

\* What the if / elif chain of handle_commands sends for a decoded packet.
\* send_single_reading sends one DATA packet per sensor and then the ACK.
MockReplies(packet) ==
    LET t == packet.header.packet_type
        ts == DeviceTimestamp
    IN CASE t = TIMESYNC -> << Pack(AckCreate(TIMESYNC, FALSE, ts)) >>
         [] t = CONTROL ->
              << Pack(AckCreate(CONTROL, ~ (packet.command_id < Len(MockControls)), ts)) >>
         [] t = STREAM_START -> << Pack(AckCreate(STREAM_START, FALSE, ts)) >>
         [] t = STREAM_STOP -> << Pack(AckCreate(STREAM_STOP, FALSE, ts)) >>
         [] t = GET_SINGLE ->
              << Pack(DataCreate(0, F32_23_5, UNIT_UNITLESS, ts)),
                 Pack(DataCreate(1, F32_23_5, UNIT_UNITLESS, ts)),
                 Pack(DataCreate(2, F32_23_5, UNIT_UNITLESS, ts)),
                 Pack(AckCreate(GET_SINGLE, FALSE, ts)) >>
         [] t = STATUS_REQUEST -> << Pack(StatusCreate(DS_ACTIVE, ts)) >>
         [] t = HEARTBEAT -> << Pack(AckCreate(HEARTBEAT, FALSE, ts)) >>
         [] OTHER -> << >>

\* The inner while loop of handle_commands, run on the buffer after a recv
\* until it exits: it runs while the buffer holds at least 10 bytes; a
\* decoded packet is handled and its packed size removed; ValueError and
\* every other exception break.
RECURSIVE MockDecodeLoop(_, _, _)
MockDecodeLoop(buffer, handled, replies) ==
    IF Len(buffer) < MinPacketSize
    THEN [buffer |-> buffer, handled |-> handled, replies |-> replies]
    ELSE IF DecodeErr(buffer) # "none"
    THEN [buffer |-> buffer, handled |-> handled, replies |-> replies]
    ELSE LET packet == decode_packet(buffer)
         IN MockDecodeLoop(PyTail(buffer, Len(Pack(packet))), Append(handled, packet),
                           replies \o MockReplies(packet))

\* sock_recv(self.sock, 1024) returns the server's next write; it is
\* appended to the buffer and the inner loop runs, its replies going out on
\* the connection.
mockRecv(c) ==
    /\ mock[c].state = "listening"
    /\ mock[c].read < Len(sockets[c].tx)
    /\ ~ sockets[c].eof /\ ~ sockets[c].reset
    /\ LET r == MockDecodeLoop(mock[c].buffer \o sockets[c].tx[mock[c].read + 1],
                               mock[c].handled, << >>)
       IN /\ mock' = [mock EXCEPT ![c].read = @ + 1, ![c].buffer = r.buffer,
                                  ![c].handled = r.handled]
          /\ sockets' = [sockets EXCEPT ![c].rx = @ \o Concat(r.replies)]
          /\ devSent' = [devSent EXCEPT ![c] = @ \o r.replies]
    /\ UNCHANGED << deviceRegistry, devices, listener, heartbeats, acceptor, connector,
                    lastCall, codec, caller >>

(***************************************************************************)
(* The registry getters and a caller of them.  A mapping the caller holds  *)
(* is a reference: `ref` says whether it is the registry object itself or  *)
(* an object of its own, whose content is `map`.                           *)
(***************************************************************************)
\* The content of the mapping the caller holds.
ReturnedMapping == IF caller.ref = "registry" THEN deviceRegistry ELSE caller.map

\* A getter that hands out the registry object itself.
getRegisteredDevicesAlias ==
    /\ caller' = [op |-> "getRegisteredDevices", ref |-> "registry", map |-> << >>]
    /\ UNCHANGED << deviceRegistry, devices, listener, heartbeats, sockets, devSent, acceptor,
                    connector, lastCall, codec, mock >>

\* return deviceRegistry.copy(): a new dict with the registry's items.
getRegisteredDevices ==
    /\ caller' = [op |-> "getRegisteredDevices", ref |-> "copy", map |-> deviceRegistry]
    /\ UNCHANGED << deviceRegistry, devices, listener, heartbeats, sockets, devSent, acceptor,
                    connector, lastCall, codec, mock >>

\* The caller executes returned[key] = device on the mapping it holds.
callerSetItem(key, d) ==
    /\ caller.op = "getRegisteredDevices"
    /\ IF caller.ref = "registry"
       THEN /\ deviceRegistry' = RegistrySet(deviceRegistry, key, d)
            /\ UNCHANGED caller
       ELSE /\ caller' = [caller EXCEPT !.map = RegistrySet(@, key, d)]
            /\ UNCHANGED deviceRegistry
    /\ UNCHANGED << devices, listener, heartbeats, sockets, devSent, acceptor, connector,
                    lastCall, codec, mock >>

\* The caller executes del returned[key] on the mapping it holds.
callerDelItem(key) ==
    /\ caller.op = "getRegisteredDevices"
    /\ key \in DOMAIN ReturnedMapping
    /\ IF caller.ref = "registry"
       THEN /\ deviceRegistry' = RegistryPop(deviceRegistry, key)
            /\ UNCHANGED caller
       ELSE /\ caller' = [caller EXCEPT !.map = RegistryPop(@, key)]
            /\ UNCHANGED deviceRegistry
    /\ UNCHANGED << devices, listener, heartbeats, sockets, devSent, acceptor, connector,
                    lastCall, codec, mock >>

\* return deviceRegistry.get(name): the value under the key `name`, or None
\* (0 here) when the registry has no such key.
getDeviceByName(name) ==
    /\ caller' = [op |-> "getDeviceByName", name |-> name,
                  result |-> IF name \in DOMAIN deviceRegistry THEN deviceRegistry[name] ELSE 0]
    /\ UNCHANGED << deviceRegistry, devices, listener, heartbeats, sockets, devSent, acceptor,
                    connector, lastCall, codec, mock >>

(***************************************************************************)
(* deviceTools.exportDataToCSV                                             *)
(***************************************************************************)
\* "for i in range(len(device.times)): row = [device.times[i]] +
\* [sensor.data[i] for sensor in device.sensors.values()]" over the sensor
\* monitors in the registry: sensor.data[i] raises IndexError when the list
\* has no index i.
exportDataToCSVRaises ==
    \E a \in DOMAIN deviceRegistry :
        LET device == devices[deviceRegistry[a]]
        IN /\ device.cls = "SensorMonitor"
           /\ \E i \in 0 .. Len(device.times) - 1, s \in 1 .. Len(device.sensors) :
                 ~ (i < Len(device.sensors[s].data))

(***************************************************************************)
(* The inner loop of _monitorSingleDevice, one iteration at a time.  A      *)
(* reader in state "decoding" is inside the loop; `exit` says that the     *)
(* iteration left the loop (the while condition was false, or a break).    *)
(***************************************************************************)
\* An iteration that, on an exception other than ValueError, keeps the byte
\* it could not decode.
LoopIterationKeepsByte(buffer, device, dispatched) ==
    IF Len(buffer) < MinPacketSize \/ DecodeErr(buffer) = "ValueError"
    THEN [buffer |-> buffer, device |-> device, dispatched |-> dispatched, exit |-> TRUE]
    ELSE IF DecodeErr(buffer) # "none"
    THEN [buffer |-> buffer, device |-> device, dispatched |-> dispatched, exit |-> FALSE]
    ELSE LET packet == decode_packet(buffer)
             packet_size == Len(Pack(packet))
         IN [buffer |-> PyTail(buffer, packet_size), device |-> Dispatch(device, packet),
             dispatched |-> Append(dispatched, packet), exit |-> FALSE]

\* "while len(buffer) >= 10:" and one pass through its body: decode_packet,
\* the dispatch and "buffer = buffer[packet_size:]"; "except ValueError:
\* break"; "except Exception: buffer = buffer[1:]".
LoopIteration(buffer, device, dispatched) ==
    IF Len(buffer) < MinPacketSize \/ DecodeErr(buffer) = "ValueError"
    THEN [buffer |-> buffer, device |-> device, dispatched |-> dispatched, exit |-> TRUE]
    ELSE IF DecodeErr(buffer) # "none"
    THEN [buffer |-> PyTail(buffer, 1), device |-> device, dispatched |-> dispatched,
          exit |-> FALSE]
    ELSE LET packet == decode_packet(buffer)
             packet_size == Len(Pack(packet))
         IN [buffer |-> PyTail(buffer, packet_size), device |-> Dispatch(device, packet),
             dispatched |-> Append(dispatched, packet), exit |-> FALSE]

\* sock_recv returns n bytes, "buffer += data", and the loop is entered.
monitorRecvBytes(d, seg) ==
    /\ listener[d].state = "running"
    /\ LET c == devices[d].socket
       IN \E n \in RecvChunks(c, 1024, seg) :
            /\ sockets' = [sockets EXCEPT ![c].rx = PyTail(@, n)]
            /\ listener' = [listener EXCEPT ![d].state = "decoding",
                                            ![d].buffer = @ \o SubSeq(sockets[c].rx, 1, n),
                                            ![d].received = @ \o SubSeq(sockets[c].rx, 1, n)]
    /\ UNCHANGED << deviceRegistry, devices, heartbeats, devSent, acceptor, connector >>

\* One iteration of the loop; when it leaves the loop the reader is back at
\* "await loop.sock_recv".
monitorDecodeStep(d) ==
    /\ listener[d].state = "decoding"
    /\ LET r == LoopIteration(listener[d].buffer, devices[d], listener[d].dispatched)
       IN /\ devices' = [devices EXCEPT ![d] = r.device]
          /\ listener' = [listener EXCEPT ![d].state = IF r.exit THEN "running" ELSE "decoding",
                                          ![d].buffer = r.buffer,
                                          ![d].dispatched = r.dispatched]
    /\ UNCHANGED << deviceRegistry, heartbeats, sockets, devSent, acceptor, connector >>

(***************************************************************************)
(* The cleanup of server.main and deviceTools.closeDeviceConnections       *)
(***************************************************************************)
\* "for name, task in daemons.items(): task.cancel()" and the gather that
\* waits for the tasks.  main's daemons are fastAPI, deviceListener and
\* commandProcessor: the deviceListener task ends, inside connectToDevice
\* when it is there.  tcpListener is not among them.
mainCancelDaemons ==
    /\ connector.pc # "cancelled"
    /\ connector' = [connector EXCEPT !.pc = "cancelled"]
    /\ UNCHANGED << deviceRegistry, devices, listener, heartbeats, sockets, devSent, acceptor >>

\* deviceRegistry.values()
RegisteredObjects == {deviceRegistry[a] : a \in DOMAIN deviceRegistry}

\* For every device in the registry: device.listenerTask.cancel() and
\* device.socket.close(); then deviceRegistry.clear().
closeDeviceConnections ==
    /\ listener' = [t \in DOMAIN listener |->
                      IF /\ \E d \in RegisteredObjects : devices[d].listenerTask = t
                         /\ listener[t].state = "running"
                      THEN [listener[t] EXCEPT !.state = "cancelled"]
                      ELSE listener[t]]
    /\ sockets' = [c \in Conn |->
                     IF \E d \in RegisteredObjects : devices[d].socket = c
                     THEN [sockets[c] EXCEPT !.closed = TRUE]
                     ELSE sockets[c]]
    /\ deviceRegistry' = [x \in {} |-> 0]
    /\ UNCHANGED << devices, heartbeats, devSent, acceptor, connector >>

(***************************************************************************)
(* The system                                                              *)
(***************************************************************************)
StreamHz == {0, 10, 300, 2000, 70000}
ControlNames == {"AVFILL", "NOPE"}
ControlStates == {"OPEN", "CLOSE", "CLOSED"}

Next ==
    \/ UNCHANGED bystanders /\ \E c \in Conn, a \in Addr : DeviceConnect(c, a)
    \/ UNCHANGED bystanders /\ \E c \in Conn, msg \in DeviceMessages : DeviceSend(c, msg, MaxSend)
    \/ UNCHANGED bystanders /\ \E c \in Conn : DeviceClose(c)
    \/ UNCHANGED bystanders /\ \E c \in Conn : ConnectionReset(c)
    \/ UNCHANGED bystanders /\ tcpListenerAccept
    \/ UNCHANGED bystanders /\ tcpListenerRecvData("whole")
    \/ UNCHANGED bystanders /\ tcpListenerRecvEOF
    \/ UNCHANGED bystanders /\ tcpListenerRecvRaises
    \/ UNCHANGED bystanders /\ tcpListenerWake
    \/ UNCHANGED bystanders /\ \E c \in Conn, a \in Addr : connectToDeviceCall(c, a)
    \/ UNCHANGED bystanders /\ connectToDeviceConnected
    \/ UNCHANGED bystanders /\ connectToDeviceRecvData("whole")
    \/ UNCHANGED bystanders /\ connectToDeviceRecvEOF
    \/ UNCHANGED bystanders /\ connectToDeviceRecvRaises
    \/ UNCHANGED bystanders /\ \E d \in Objects : monitorRecvData(d, "whole")
    \/ UNCHANGED bystanders /\ \E d \in Objects : monitorRecvEOF(d)
    \/ UNCHANGED bystanders /\ \E d \in Objects : monitorRecvRaises(d)
    \/ UNCHANGED bystanders /\ \E d \in Objects : heartbeat(d)
    \/ UNCHANGED bystanders /\ \E d \in Objects : getSingle(d)
    \/ UNCHANGED bystanders /\ \E d \in Objects : stopStreaming(d)
    \/ UNCHANGED bystanders /\ \E d \in Objects, Hz \in StreamHz : startStreaming(d, Hz)
    \/ UNCHANGED bystanders /\ \E d \in Objects, n \in ControlNames, st \in ControlStates : setControl(d, n, st)
    \/ UNCHANGED bystanders /\ \E d \in Objects : getStatus(d)

Spec == Init /\ [][Next]_vars

(***************************************************************************)
(* The framing specification: one device connects, is accepted, and sends  *)
(* packets that the acceptor and the session reader receive in chunks of   *)
(* any size.                                                               *)
(***************************************************************************)
MaxSendReader == 3

NextReader ==
    \/ UNCHANGED bystanders /\ DeviceConnect(1, "A")
    \/ UNCHANGED bystanders /\ \E msg \in DeviceMessages : DeviceSend(1, msg, MaxSendReader)
    \/ UNCHANGED bystanders /\ tcpListenerAccept
    \/ UNCHANGED bystanders /\ tcpListenerRecvData("any")
    \/ UNCHANGED bystanders /\ tcpListenerWake
    \/ UNCHANGED bystanders /\ \E d \in Objects : monitorRecvData(d, "any")

SpecReader == Init /\ [][NextReader]_vars

(***************************************************************************)
(* The command specification: one device connects and is registered by the *)
(* acceptor, its connection may break, and the command API is called on    *)
(* it while its heartbeat runs; every call is recorded in lastCall.        *)
(***************************************************************************)
NextCommands ==
    \/ UNCHANGED bystanders /\ DeviceConnect(1, "A")
    \/ UNCHANGED bystanders /\ \E msg \in DeviceMessages : DeviceSend(1, msg, MaxSend)
    \/ UNCHANGED bystanders /\ ConnectionReset(1)
    \/ UNCHANGED bystanders /\ tcpListenerAccept
    \/ UNCHANGED bystanders /\ tcpListenerRecvData("whole")
    \/ UNCHANGED bystanders /\ tcpListenerWake
    \/ UNCHANGED bystanders /\ \E d \in Objects : monitorRecvData(d, "whole")
    \/ UNCHANGED bystanders /\ \E d \in Objects : monitorRecvRaises(d)
    \/ UNCHANGED bystanders /\ \E d \in Objects : heartbeat(d)
    \/ UNCHANGED << codec, mock, caller >>
       /\ \E d \in Objects : getSingle(d) /\ lastCall' = Call("getSingle", d, 0, "", "")
    \/ UNCHANGED << codec, mock, caller >>
       /\ \E d \in Objects : stopStreaming(d) /\ lastCall' = Call("stopStreaming", d, 0, "", "")
    \/ UNCHANGED << codec, mock, caller >>
       /\ \E d \in Objects, Hz \in StreamHz :
             startStreaming(d, Hz) /\ lastCall' = Call("startStreaming", d, Hz, "", "")
    \/ UNCHANGED << codec, mock, caller >>
       /\ \E d \in Objects, n \in ControlNames, st \in ControlStates :
             setControl(d, n, st) /\ lastCall' = Call("setControl", d, 0, n, st)
    \/ UNCHANGED << codec, mock, caller >>
       /\ \E d \in Objects : getStatus(d) /\ lastCall' = Call("getStatus", d, 0, "", "")

SpecCommands == Init /\ [][NextCommands]_vars

(***************************************************************************)
(* The shutdown specification: devices connect and are registered by the   *)
(* acceptor, connections may break, getSingle is called while the command  *)
(* daemons live, and main runs its cleanup once: it cancels its daemons    *)
(* and then calls closeDeviceConnections, which is recorded in lastCall.   *)
(***************************************************************************)
NextShutdown ==
    \/ UNCHANGED bystanders /\ \E c \in Conn, a \in Addr : DeviceConnect(c, a)
    \/ UNCHANGED bystanders /\ \E c \in Conn, msg \in DeviceMessages : DeviceSend(c, msg, MaxSend)
    \/ UNCHANGED bystanders /\ \E c \in Conn : ConnectionReset(c)
    \/ UNCHANGED bystanders /\ tcpListenerAccept
    \/ UNCHANGED bystanders /\ tcpListenerRecvData("whole")
    \/ UNCHANGED bystanders /\ tcpListenerRecvRaises
    \/ UNCHANGED bystanders /\ tcpListenerWake
    \/ UNCHANGED bystanders /\ \E d \in Objects : monitorRecvData(d, "whole")
    \/ UNCHANGED bystanders /\ \E d \in Objects : monitorRecvRaises(d)
    \/ UNCHANGED bystanders /\ \E d \in Objects : heartbeat(d)
    \/ UNCHANGED bystanders /\ connector.pc # "cancelled" /\ \E d \in Objects : getSingle(d)
    \/ UNCHANGED bystanders /\ mainCancelDaemons
    \/ /\ connector.pc = "cancelled"
       /\ lastCall.op = "none"
       /\ closeDeviceConnections
       /\ lastCall' = Call("closeDeviceConnections", 0, 0, "", "")
       /\ UNCHANGED << codec, mock, caller >>

SpecShutdown == Init /\ [][NextShutdown]_vars

(***************************************************************************)
(* The send specification: one device is registered, and getSingle calls   *)
(* and the heartbeats of the device write on its socket, the kernel taking *)
(* each send whole or in part.                                             *)
(***************************************************************************)
NextSend ==
    \/ UNCHANGED bystanders /\ DeviceConnect(1, "A")
    \/ UNCHANGED bystanders /\ \E msg \in DeviceMessages : DeviceSend(1, msg, MaxSend)
    \/ UNCHANGED bystanders /\ tcpListenerAccept
    \/ UNCHANGED bystanders /\ tcpListenerRecvData("whole")
    \/ UNCHANGED bystanders /\ tcpListenerWake
    \/ UNCHANGED bystanders /\ \E d \in Objects : monitorRecvData(d, "whole")
    \/ UNCHANGED bystanders /\ \E d \in Objects : getSingleSendall(d)
    \/ UNCHANGED bystanders /\ \E c \in Conn : sockSendallReady(c)
    \/ UNCHANGED bystanders /\ \E d \in Objects : heartbeatSendall(d)

SpecSend == Init /\ [][NextSend]_vars

(***************************************************************************)
(* The acceptor specification: devices connect, send or stay silent, and   *)
(* close; the event loop runs the tcpListener task whenever it can take a  *)
(* step (weak fairness), while no device is obliged to send anything.      *)
(***************************************************************************)
tcpListenerStep ==
    /\ UNCHANGED bystanders
    /\ \/ tcpListenerAccept
       \/ tcpListenerRecvData("whole")
       \/ tcpListenerRecvEOF
       \/ tcpListenerWake

NextAccept ==
    \/ UNCHANGED bystanders /\ \E c \in Conn, a \in Addr : DeviceConnect(c, a)
    \/ UNCHANGED bystanders /\ \E c \in Conn, msg \in DeviceMessages : DeviceSend(c, msg, MaxSend)
    \/ UNCHANGED bystanders /\ \E c \in Conn : DeviceClose(c)
    \/ UNCHANGED bystanders /\ tcpListenerAccept
    \/ UNCHANGED bystanders /\ tcpListenerRecvData("whole")
    \/ UNCHANGED bystanders /\ tcpListenerRecvEOF
    \/ UNCHANGED bystanders /\ tcpListenerWake
    \/ UNCHANGED bystanders /\ \E d \in Objects : monitorRecvData(d, "whole")

SpecAccept == Init /\ [][NextAccept]_vars /\ WF_vars(tcpListenerStep)

(***************************************************************************)
(* The logging specification: one device is registered and sends packets;  *)
(* any log call of the session reader may fail.                            *)
(***************************************************************************)
NextLog ==
    \/ UNCHANGED bystanders /\ DeviceConnect(1, "A")
    \/ UNCHANGED bystanders /\ \E msg \in DeviceMessages : DeviceSend(1, msg, MaxSendReader)
    \/ UNCHANGED bystanders /\ tcpListenerAccept
    \/ UNCHANGED bystanders /\ tcpListenerRecvData("any")
    \/ UNCHANGED bystanders /\ tcpListenerWake
    \/ UNCHANGED bystanders /\ \E d \in Objects : monitorRecvData(d, "any")
    \/ UNCHANGED bystanders /\ \E d \in Objects : monitorRecvDataLogRaises(d, "any")

SpecLog == Init /\ [][NextLog]_vars

(***************************************************************************)
(* The codec specification: protocol.py alone, on the packets its create   *)
(* methods return.                                                         *)
(***************************************************************************)
NextCodec ==
    \/ codecCreate
    \/ codecPack
    \/ codecPrefix
    \/ codecOtherVersion
    \/ codecDecode
    \/ codecDone

SpecCodec == Init /\ [][NextCodec]_vars

(***************************************************************************)
(* The unknown-type specification: the framing specification with a device *)
(* that may also send a packet of an unassigned type.                      *)
(***************************************************************************)
NextUnknown ==
    \/ UNCHANGED bystanders /\ DeviceConnect(1, "A")
    \/ UNCHANGED bystanders
       /\ \E msg \in DeviceMessages \cup {UnknownTypePacket} : DeviceSend(1, msg, MaxSendReader)
    \/ UNCHANGED bystanders /\ tcpListenerAccept
    \/ UNCHANGED bystanders /\ tcpListenerRecvData("any")
    \/ UNCHANGED bystanders /\ tcpListenerWake
    \/ UNCHANGED bystanders /\ \E d \in Objects : monitorRecvData(d, "any")

SpecUnknown == Init /\ [][NextUnknown]_vars

(***************************************************************************)
(* The handshake specification: devices connect to the listening port and  *)
(* send, as their first message, a CONFIG packet with any of the           *)
(* configurations, a CONFIG packet whose text is no JSON, or something     *)
(* that is no CONFIG packet; the heartbeats of the constructed objects run. *)
(***************************************************************************)
\* "{" alone: a text json.loads rejects.
BadJson == << 123 >>

HandshakeMessages ==
    {Pack(ConfigCreate(JsonText(k), DeviceTimestamp)) : k \in ConfigIds}
    \cup {Pack(ConfigCreate(BadJson, DeviceTimestamp)),
          Pack(AckCreate(CONTROL, FALSE, DeviceTimestamp)),
          CONF \o JsonText(1)}

NextHandshake ==
    \/ UNCHANGED bystanders /\ \E c \in Conn, a \in Addr : DeviceConnect(c, a)
    \/ UNCHANGED bystanders
       /\ \E c \in Conn, msg \in HandshakeMessages : DeviceSend(c, msg, MaxSend)
    \/ UNCHANGED bystanders /\ \E c \in Conn : DeviceClose(c)
    \/ UNCHANGED bystanders /\ tcpListenerAccept
    \/ UNCHANGED bystanders /\ tcpListenerRecvData("whole")
    \/ UNCHANGED bystanders /\ tcpListenerRecvEOF
    \/ UNCHANGED bystanders /\ tcpListenerWake
    \/ UNCHANGED bystanders /\ \E d \in Objects : monitorRecvData(d, "whole")
    \/ UNCHANGED bystanders /\ \E d \in Objects : monitorRecvEOF(d)
    \/ UNCHANGED bystanders /\ \E d \in Objects : heartbeat(d)

SpecHandshake == Init /\ [][NextHandshake]_vars

(***************************************************************************)
(* The mock-device specification: mock devices connect and are registered, *)
(* and setControl calls and the heartbeats write on their sockets.  The    *)
(* event loop of a mock device runs handle_commands whenever the server    *)
(* has written something it has not received yet, and the server's event   *)
(* loop runs the heartbeat tasks every 5 seconds (weak fairness on both).  *)
(***************************************************************************)
mockStep == \E c \in Conn : mockRecv(c)

heartbeatStep == UNCHANGED bystanders /\ \E d \in Objects : heartbeat(d)

NextMock ==
    \/ \E c \in Conn, a \in Addr : mockConnect(c, a)
    \/ \E c \in Conn : mockSendConfig(c)
    \/ mockStep
    \/ UNCHANGED bystanders /\ tcpListenerAccept
    \/ UNCHANGED bystanders /\ tcpListenerRecvData("whole")
    \/ UNCHANGED bystanders /\ \E d \in Objects : monitorRecvData(d, "whole")
    \/ heartbeatStep
    \/ UNCHANGED bystanders
       /\ \E d \in Objects, n \in ControlNames, st \in ControlStates : setControl(d, n, st)

SpecMock == Init /\ [][NextMock]_vars /\ WF_vars(mockStep) /\ WF_vars(heartbeatStep)

(***************************************************************************)
(* The data specification: one sensor monitor connects with a              *)
(* configuration of two thermocouples or of a thermocouple and a           *)
(* resistance sensor, is registered, and sends DATA packets with sensor    *)
(* ids inside and outside its sensors, STATUS packets and its CONFIG       *)
(* again; the reader receives them in chunks of any size.                  *)
(***************************************************************************)
DataMessages ==
    {Pack(ConfigCreate(JsonText(k), DeviceTimestamp)) : k \in {1, 5}}
    \cup {Pack(DataCreate(i, F32_23_5, UNIT_CELSIUS, DeviceTimestamp)) : i \in {0, 1, 2}}
    \cup {Pack(StatusCreate(DS_ACTIVE, DeviceTimestamp))}

NextData ==
    \/ UNCHANGED bystanders /\ DeviceConnect(1, "A")
    \/ UNCHANGED bystanders /\ \E msg \in DataMessages : DeviceSend(1, msg, MaxSendReader)
    \/ UNCHANGED bystanders /\ tcpListenerAccept
    \/ UNCHANGED bystanders /\ tcpListenerRecvData("whole")
    \/ UNCHANGED bystanders /\ \E d \in Objects : monitorRecvData(d, "any")

SpecData == Init /\ [][NextData]_vars

(***************************************************************************)
(* The registry specification: devices named PM1 and CAM connect from the  *)
(* addresses and are registered, connections break and readers remove      *)
(* their devices, while a caller takes the registered devices, changes the *)
(* mapping it was given, and looks devices up by name.                     *)
(***************************************************************************)
LookupNames == {"PM1", "CAM", "A"}

NextRegistry ==
    \/ UNCHANGED bystanders /\ \E c \in Conn, a \in Addr : DeviceConnect(c, a)
    \/ UNCHANGED bystanders
       /\ \E c \in Conn, k \in {1, 2} :
             DeviceSend(c, Pack(ConfigCreate(JsonText(k), DeviceTimestamp)), MaxSend)
    \/ UNCHANGED bystanders /\ \E c \in Conn : ConnectionReset(c)
    \/ UNCHANGED bystanders /\ tcpListenerAccept
    \/ UNCHANGED bystanders /\ tcpListenerRecvData("whole")
    \/ UNCHANGED bystanders /\ \E d \in Objects : monitorRecvRaises(d)
    \/ getRegisteredDevices
    \/ \E key \in Addr, d \in Objects : callerSetItem(key, d)
    \/ \E key \in Addr : callerDelItem(key)
    \/ \E name \in LookupNames : getDeviceByName(name)

SpecRegistry == Init /\ [][NextRegistry]_vars

(***************************************************************************)
(* The loop specification: the framing specification with the reader's     *)
(* inner loop taken one iteration at a time, and a device that also sends  *)
(* a packet of an unassigned type and the text of a heartbeat.  The loop   *)
(* has no await: once entered its iterations follow one another (weak      *)
(* fairness).                                                              *)
(***************************************************************************)
monitorDecodeLoop == UNCHANGED bystanders /\ \E d \in Objects : monitorDecodeStep(d)

NextLoop ==
    \/ UNCHANGED bystanders /\ DeviceConnect(1, "A")
    \/ UNCHANGED bystanders
       /\ \E msg \in DeviceMessages \cup {UnknownTypePacket, BEAT} :
             DeviceSend(1, msg, MaxSendReader)
    \/ UNCHANGED bystanders /\ tcpListenerAccept
    \/ UNCHANGED bystanders /\ tcpListenerRecvData("any")
    \/ UNCHANGED bystanders /\ tcpListenerWake
    \/ UNCHANGED bystanders /\ \E d \in Objects : monitorRecvBytes(d, "any")
    \/ monitorDecodeLoop

SpecLoop == Init /\ [][NextLoop]_vars /\ WF_vars(monitorDecodeLoop)

(***************************************************************************)
(* Properties                                                              *)
(***************************************************************************)
\* The encoded packets among the messages a device may send.
EncodedPackets == {Pack(p) : p \in DevicePackets}

\* The objects a step constructs.
Constructed == (Len(devices) + 1) .. Len(devices')

\* C1: registering never replaces a live entry.  In a step in which a
\* handshake constructs a device for an address that the registry maps to a
\* device whose reader is running, the registry keeps mapping the address to
\* that device, no reader task is created for the new device, and the
\* original reader keeps running.
C1_RegisterNeverReplaces ==
    [][\A a \in DOMAIN deviceRegistry :
          (/\ listener[deviceRegistry[a]].state = "running"
           /\ \E n \in Constructed : devices'[n].address = a)
          => /\ a \in DOMAIN deviceRegistry'
             /\ deviceRegistry'[a] = deviceRegistry[a]
             /\ listener'[deviceRegistry[a]].state = "running"
             /\ \A n \in Constructed : devices'[n].address = a => listener'[n].state = "none"]_vars

\* C2: whenever a device's reader task has terminated, after EOF or after an
\* I/O exception, the registry no longer maps the device's address to it and
\* the device's socket has been closed.
C2_ReaderExitTearsDown ==
    \A d \in Objects :
        listener[d].state = "returned"
        => /\ ~ (devices[d].address \in DOMAIN deviceRegistry
                 /\ deviceRegistry[devices[d].address] = d)
           /\ sockets[devices[d].socket].closed

\* C3: once the reader of a sensor monitor has processed a DATA packet, every
\* sensor's data list is as long as the device's times list.
C3_SensorLengthsEqualTimes ==
    \A d \in Objects :
        (/\ devices[d].cls = "SensorMonitor"
         /\ "sensors" \in DOMAIN devices[d]
         /\ \E i \in 1 .. Len(listener[d].dispatched) :
                listener[d].dispatched[i].header.packet_type = DATA)
        => \A i \in 1 .. Len(devices[d].sensors) :
               Len(devices[d].sensors[i].data) = Len(devices[d].times)

\* C4: when the packets a device sent after its CONFIG are all validly
\* encoded and the reader's recvs have returned exactly their bytes, in
\* chunks of whatever sizes, the reader has dispatched exactly those packets
\* in the order sent.
C4_FramingDispatchesAllPackets ==
    \A d \in Objects :
        LET c == devices[d].socket
            msgs == Tail(devSent[c])
        IN (/\ listener[d].state = "running"
            /\ devSent[c] # << >>
            /\ \A i \in 1 .. Len(msgs) : msgs[i] \in EncodedPackets
            /\ listener[d].received = Concat(msgs))
           => listener[d].dispatched = [i \in 1 .. Len(msgs) |-> decode_packet(msgs[i])]

\* C5: when the socket write of a command fails, then on return the device's
\* address is absent from the registry and the device's reader task has been
\* cancelled.
C5_WriteFailureTearsDown ==
    [][\A d \in Objects :
          (/\ d \in Handles
           /\ SendRaises(devices[d].socket)
           /\ \/ getSingle(d)
              \/ stopStreaming(d)
              \/ startStreaming(d, 10)
              \/ (devices[d].cls = "SensorMonitor" /\ setControl(d, "AVFILL", "OPEN")))
          => /\ devices[d].address \notin DOMAIN deviceRegistry'
             /\ listener'[d].state = "cancelled"]_vars

\* The packets among the writes on socket c, in the order written.
IsPacket(b) == DecodeErr(b) = "none"
RECURSIVE PacketsIn(_)
PacketsIn(writes) ==
    IF writes = << >> THEN << >>
    ELSE IF IsPacket(Head(writes)) THEN << decode_packet(Head(writes)) >> \o PacketsIn(Tail(writes))
    ELSE PacketsIn(Tail(writes))

\* C6: from the moment setControl writes a CONTROL until the reader processes
\* an ACK or NACK, the device holds an entry for it in pending_controls.
C6_PendingControlHeld ==
    \A d \in Handles :
        LET sent == PacketsIn(sockets[devices[d].socket].tx)
            seen == listener[d].dispatched
        IN (/\ \E i \in 1 .. Len(sent) : sent[i].header.packet_type = CONTROL
            /\ \A i \in 1 .. Len(seen) : seen[i].header.packet_type \notin {ACK, NACK})
           => /\ "pending_controls" \in DOMAIN devices[d]
              /\ devices[d].pending_controls # << >>

\* C7: every packet the server sends carries a sequence field, equal to the
\* sequence of the packet sent before it on that socket plus 1 modulo 256.
C7_SequenceIncrements ==
    \A c \in Conn :
        LET sent == PacketsIn(sockets[c].tx)
        IN \A i \in 1 .. Len(sent) :
              /\ "sequence" \in DOMAIN sent[i].header
              /\ i > 1 => sent[i].header.sequence = (sent[i - 1].header.sequence + 1) % 256

\* C8: on an accepted connection whose device was registered, the first write
\* is ACK(CONFIG), the second a header-only TIMESYNC, and the reader has
\* processed no packet before both are written.
C8_AckThenTimesyncFirst ==
    \A d \in Handles :
        LET c == devices[d].socket
            tx == sockets[c].tx
        IN sockets[c].state = "accepted"
           => /\ Len(tx) >= 1 => /\ IsPacket(tx[1])
                                 /\ decode_packet(tx[1]).header.packet_type = ACK
                                 /\ decode_packet(tx[1]).ack_packet_type = CONFIG
              /\ Len(tx) >= 2 => /\ IsPacket(tx[2])
                                 /\ decode_packet(tx[2]).header.packet_type = TIMESYNC
                                 /\ Len(tx[2]) = HeaderSize
              /\ listener[d].dispatched # << >> => Len(tx) >= 2

\* C9: once the reader has processed an ACK of a TIMESYNC, last_sync_time is
\* recorded on the device and resync_pending is false.
C9_TimesyncAckRecorded ==
    \A d \in Handles :
        LET seen == listener[d].dispatched
        IN (/\ seen # << >>
            /\ seen[Len(seen)].header.packet_type = ACK
            /\ seen[Len(seen)].ack_packet_type = TIMESYNC)
           => /\ "last_sync_time" \in DOMAIN devices[d]
              /\ "resync_pending" \in DOMAIN devices[d]
              /\ devices[d].resync_pending = FALSE

\* C10: when the first bytes received on an accepted connection decode to a
\* packet that is not CONFIG, the acceptor writes a NACK naming the received
\* type, closes the socket, and creates no registry entry and no device.
C10_NonConfigFirstPacketRefused ==
    [][(acceptor.pc = "recv" /\ acceptor'.pc # "recv")
       => LET c == acceptor.conn
              got == SubSeq(sockets[c].rx, 1, Len(sockets[c].rx) - Len(sockets'[c].rx))
          IN (IsPacket(got) /\ decode_packet(got).header.packet_type # CONFIG)
             => /\ \E ts \in ServerTimestamps :
                     sockets'[c].tx =
                        << Pack(AckCreate(decode_packet(got).header.packet_type, TRUE, ts)) >>
                /\ sockets'[c].closed
                /\ deviceRegistry' = deviceRegistry
                /\ devices' = devices]_vars

\* The variables other than the call history.
programVars ==
    << deviceRegistry, devices, listener, heartbeats, sockets, devSent, acceptor, connector >>

\* The writes a step adds on socket c.
NewWrites(c) == SubSeq(sockets'[c].tx, Len(sockets[c].tx) + 1, Len(sockets'[c].tx))

\* The CONTROL packet the claim expects for control `name` of device d.
ControlFor(d, name, state, ts) ==
    Pack(ControlCreate(IndexOf(devices[d].controls, name), state, ts))

C12_StartStreamingWritesHz ==
    [][\A d \in Objects, Hz \in StreamHz :
          (/\ startStreaming(d, Hz)
           /\ lastCall' = Call("startStreaming", d, Hz, "", "")
           /\ 1 <= Hz /\ Hz <= 65535
           /\ ~ SendRaises(devices[d].socket)
           /\ devices[d].address \in DOMAIN deviceRegistry)
          => /\ Len(NewWrites(devices[d].socket)) = 1
             /\ IsPacket(NewWrites(devices[d].socket)[1])
             /\ decode_packet(NewWrites(devices[d].socket)[1]).header.packet_type = STREAM_START
             /\ decode_packet(NewWrites(devices[d].socket)[1]).frequency_hz = Hz
             /\ devices[d].address \in DOMAIN deviceRegistry']_vars

\* C13: startStreaming called with Hz = 0 or Hz > 65535 writes nothing and
\* leaves the registry and every device's state unchanged.
C13_StartStreamingRefusesOutOfRange ==
    [][\A d \in Objects, Hz \in StreamHz :
          (/\ startStreaming(d, Hz)
           /\ lastCall' = Call("startStreaming", d, Hz, "", "")
           /\ (Hz = 0 \/ Hz > 65535))
          => UNCHANGED programVars]_vars

\* C13 witness: startStreaming was called last with Hz > 65535 on a registered
\* device whose socket accepts writes, and nothing is written on the socket.
C13_Witness ==
    /\ lastCall.op = "startStreaming"
    /\ lastCall.Hz > 65535
    /\ devices[lastCall.d].address \in DOMAIN deviceRegistry
    /\ ~ SendRaises(devices[lastCall.d].socket)
    /\ sockets[devices[lastCall.d].socket].tx = << >>

\* A byte sequence that is a concatenation of whole encoded packets: its
\* first bytes decode to a packet, the packet's encoding is what was decoded,
\* and the rest is such a sequence again.
RECURSIVE IsPacketStream(_)
IsPacketStream(b) ==
    \/ b = << >>
    \/ /\ IsPacket(b)
       /\ Len(Pack(decode_packet(b))) <= Len(b)
       /\ Pack(decode_packet(b)) = SubSeq(b, 1, Len(Pack(decode_packet(b))))
       /\ IsPacketStream(PyTail(b, Len(Pack(decode_packet(b)))))

\* C14: every byte sequence the server writes to a device socket is a
\* concatenation of whole encoded protocol packets.
C14_WritesArePackets ==
    \A c \in Conn :
        \A i \in 1 .. Len(sockets[c].tx) : IsPacketStream(sockets[c].tx[i])

\* C16: once a device's reader has exited, its heartbeat task is cancelled:
\* no heartbeat of the device writes on the device's socket any more.
C16_NoHeartbeatAfterTeardown ==
    [][\A d \in Objects :
          listener[d].state = "returned"
          => ~ (heartbeat(d) /\ NewWrites(devices[d].socket) = << BEAT >>)]_vars

\* C18: in a step in which the reader of a device at address A exits on a
\* fatal I/O error, the acceptor task is left as it is and, for every address
\* B other than A, B's registry entry and the state and the reader task of
\* every device at B are unchanged.
C18_FatalErrorIsolated ==
    [][\A d \in Objects :
          (/\ listener[d].state = "running"
           /\ listener'[d].state = "returned"
           /\ RecvRaises(devices[d].socket))
          => /\ acceptor' = acceptor
             /\ \A b \in Addr \ {devices[d].address} :
                   /\ (b \in DOMAIN deviceRegistry) = (b \in DOMAIN deviceRegistry')
                   /\ b \in DOMAIN deviceRegistry => deviceRegistry'[b] = deviceRegistry[b]
             /\ \A e \in Objects :
                   devices[e].address # devices[d].address
                   => /\ devices'[e] = devices[e]
                      /\ listener'[e] = listener[e]
                      /\ heartbeats'[e] = heartbeats[e]]_vars

\* C18 witness: the reader of one device has exited on a broken connection
\* while a device at another address is registered with its reader running.
C18_Witness ==
    \E d \in Objects, e \in Objects :
        /\ listener[d].state = "returned"
        /\ sockets[devices[d].socket].reset
        /\ ~ sockets[devices[d].socket].eof
        /\ devices[e].address # devices[d].address
        /\ listener[e].state = "running"
        /\ devices[e].address \in DOMAIN deviceRegistry
        /\ deviceRegistry[devices[e].address] = e

\* A TIMESYNC ack is among the packets the reader of d has processed.
TimesyncAcked(d) ==
    \E i \in 1 .. Len(listener[d].dispatched) :
        /\ listener[d].dispatched[i].header.packet_type = ACK
        /\ listener[d].dispatched[i].ack_packet_type = TIMESYNC

\* C20: a sample time in a device's times list is something other than the
\* server's monotonic clock minus the device's startTime only if a TIMESYNC
\* has been acked on the session; as long as none has been acked, every
\* sample time is the server's monotonic clock minus startTime, startTime
\* being a reading of that clock.
C20_SampleTimeSource ==
    \A d \in Objects :
        (devices[d].cls = "SensorMonitor" /\ "times" \in DOMAIN devices[d])
        => \A k \in 1 .. Len(devices[d].times) :
              /\ devices[d].times[k] # "monotonic" => TimesyncAcked(d)
              /\ ~ TimesyncAcked(d) => /\ devices[d].times[k] = "monotonic"
                                       /\ devices[d].startTime = "monotonic"

\* C20 witness: a DATA packet was processed and its sample time appended
\* while no TIMESYNC has been acked.
C20_Witness ==
    \E d \in Objects :
        /\ devices[d].cls = "SensorMonitor"
        /\ "times" \in DOMAIN devices[d]
        /\ devices[d].times # << >>
        /\ ~ TimesyncAcked(d)
        /\ \E i \in 1 .. Len(listener[d].dispatched) :
              listener[d].dispatched[i].header.packet_type = DATA

\* C19: after closeDeviceConnections has returned at the end of main, the
\* registry is empty, and every device that was registered (it was given a
\* reader task) has no running reader task and a closed socket; in
\* particular no device is registered after the registry was cleared.
C19_ShutdownLeavesNothing ==
    lastCall.op = "closeDeviceConnections"
    => /\ DOMAIN deviceRegistry = {}
       /\ \A d \in Objects :
             listener[d].state # "none"
             => /\ listener[d].state # "running"
                /\ sockets[devices[d].socket].closed

\* The encoded CONFIG packet of the model's devices.
ValidConfig == Pack(ConfigCreate(JsonText(1), DeviceTimestamp))

\* C17: a connection that is waiting to be accepted and has sent a valid
\* CONFIG is eventually accepted and a device is registered for it, whatever
\* the clients that connected before it do: stay silent, or fail the
\* handshake.
C17_AcceptorNotStalled ==
    \A c \in Conn :
        (sockets[c].state = "backlog" /\ devSent[c] = << ValidConfig >>)
        ~> (\E d \in Objects : devices[d].socket = c)

\* C15: while a packet given to sock_sendall is partly on a device's socket
\* and partly still to be sent, whatever a step writes on that socket is the
\* continuation of that packet: no byte of another outgoing packet comes in
\* between.
C15_NoInterleavedWrites ==
    [][\A c \in Conn :
          (sockets[c].writer # << >> /\ sockets[c].writer[1].pos > 0)
          => LET w == sockets[c].writer[1]
                 new == Concat(NewWrites(c))
             IN /\ Len(new) <= Len(w.data) - w.pos
                /\ new = SubSeq(w.data, w.pos + 1, w.pos + Len(new))]_vars

\* C21: a log call that fails while the session is receiving does not
\* terminate the session task, does not remove the device from the registry,
\* and does not stop the dispatch of the packets that are in the buffer: the
\* step leaves the reader running, the registry as it was, and the buffer in
\* the state the inner loop leaves it in.
C21_LogFailureDoesNotFaultSession ==
    [][\A d \in Objects :
          monitorRecvDataLogRaises(d, "any")
          => /\ listener'[d].state = "running"
             /\ deviceRegistry' = deviceRegistry
             /\ listener'[d].buffer =
                   DecodeLoop(listener'[d].buffer, devices[d], << >>).buffer]_vars

\* C22: for every packet a create method returns, decode_packet applied to
\* its packed bytes returns a packet of the same class whose header fields
\* and payload fields equal the original's.
C22_CodecRoundtrip ==
    (codec.pc = "decoded" /\ codec.input = "packed")
    => /\ codec.err = "none"
       /\ codec.decoded.cls = codec.packet.cls
       /\ codec.decoded = codec.packet

\* C23: for every packet type and every proper prefix of an encoded packet,
\* decode_packet fails with ValueError, the error the session reader takes
\* as "wait for more bytes", and never with another error or with none.
C23_PrefixIsIncomplete ==
    (codec.pc = "decoded" /\ codec.input = "prefix") => codec.err = "ValueError"

\* C24: decode_packet rejects every packet whose header version differs from
\* the current protocol version: it raises and returns no packet.
C24_OtherVersionRejected ==
    (codec.pc = "decoded" /\ codec.input = "other version") => codec.err # "none"

\* C25: a device object is created and put in the registry only when the
\* first message received on the new connection is a well-formed CONFIG
\* packet; on every other first message, the connectToDevice path included,
\* nothing is constructed and nothing is registered.
C25_RegisteredOnlyOnConfigPacket ==
    [][\A n \in Constructed :
          LET c == devices'[n].socket
          IN /\ devSent[c] # << >>
             /\ IsPacket(devSent[c][1])
             /\ decode_packet(devSent[c][1]).header.packet_type = CONFIG
             /\ ~ JsonLoadsFails(decode_packet(devSent[c][1]).config_json)]_vars

\* A complete packet stands at the head of the bytes b.
HoldsCompletePacket(b) ==
    /\ IsPacket(b)
    /\ Len(Pack(decode_packet(b))) <= Len(b)
    /\ Pack(decode_packet(b)) = SubSeq(b, 1, Len(Pack(decode_packet(b))))

\* C27: whenever the session reader waits in sock_recv for more bytes, its
\* buffer holds no complete packet: every packet received in full, one of
\* header-only size alone in the buffer included, has been dispatched.
C27_NoCompletePacketLeftInBuffer ==
    \A d \in Objects :
        listener[d].state = "running" => ~ HoldsCompletePacket(listener[d].buffer)

\* The messages of msgs other than the packet of unassigned type, decoded.
RECURSIVE DecodedKnown(_)
DecodedKnown(msgs) ==
    IF msgs = << >> THEN << >>
    ELSE IF Head(msgs) = UnknownTypePacket THEN DecodedKnown(Tail(msgs))
    ELSE << decode_packet(Head(msgs)) >> \o DecodedKnown(Tail(msgs))

\* C28: when a device has sent, after its CONFIG, a packet of an unassigned
\* type followed by a validly encoded packet, and the reader has received all
\* these bytes, the reader has written a NACK on the socket, has consumed the
\* unknown packet's bytes, and has dispatched every other packet sent, in
\* order.
C28_UnknownTypeNackedAndSkipped ==
    \A d \in Objects :
        LET c == devices[d].socket
            msgs == Tail(devSent[c])
        IN (/\ listener[d].state = "running"
            /\ devSent[c] # << >>
            /\ \A i \in 1 .. Len(msgs) : msgs[i] \in EncodedPackets \cup {UnknownTypePacket}
            /\ \E i \in 1 .. Len(msgs) :
                  msgs[i] = UnknownTypePacket /\ i < Len(msgs) /\ msgs[i + 1] \in EncodedPackets
            /\ listener[d].received = Concat(msgs))
           => /\ \E k \in 1 .. Len(sockets[c].tx) :
                    /\ IsPacket(sockets[c].tx[k])
                    /\ decode_packet(sockets[c].tx[k]).header.packet_type = NACK
              /\ listener[d].dispatched = DecodedKnown(msgs)

\* C29: when the handshake on an accepted connection ends in an exception
\* (undecodable bytes, invalid JSON, a missing deviceName or deviceType, a
\* malformed sensor entry), then after the step no registry entry names an
\* object of that connection, no heartbeat task of an object of that
\* connection is running, and the connection is closed.
C29_FailedHandshakeLeavesNothing ==
    [][(acceptor.pc = "recv" /\ acceptor'.pc = "sleep" /\ ~ RecvRaises(acceptor.conn))
       => LET c == acceptor.conn
          IN /\ \A a \in DOMAIN deviceRegistry' : devices'[deviceRegistry'[a]].socket # c
             /\ \A d \in 1 .. Len(devices') :
                   devices'[d].socket = c => heartbeats'[d] # "running"
             /\ sockets'[c].closed]_vars

\* The heartbeat tasks that are running on connection c.
HeartbeatsOn(c) == {d \in Objects : devices[d].socket = c /\ heartbeats[d] = "running"}

\* C30: for each connected device there is at most one heartbeat task
\* writing to its socket at any time.
C30_OneHeartbeatPerSocket ==
    \A c \in Conn : Cardinality(HeartbeatsOn(c)) <= 1

\* The CONTROL packets among the server's writes on connection c, and the
\* ACK and NACK packets for CONTROL among what the device has sent on it.
IsControl(b) == IsPacket(b) /\ decode_packet(b).header.packet_type = CONTROL
IsControlReply(b) ==
    /\ IsPacket(b)
    /\ decode_packet(b).header.packet_type \in {ACK, NACK}
    /\ decode_packet(b).ack_packet_type = CONTROL

ControlsWritten(c) ==
    Cardinality({i \in 1 .. Len(sockets[c].tx) : IsControl(sockets[c].tx[i])})
ControlReplies(c) ==
    Cardinality({i \in 1 .. Len(devSent[c]) : IsControlReply(devSent[c][i])})

\* C26: for every CONTROL packet the server writes to a connected mock
\* device, the device eventually replies with exactly one ACK or NACK for
\* CONTROL, whatever the server wrote on the socket before and whether or not
\* more than the next heartbeat follows: the replies never outnumber the
\* CONTROL packets written, and once the k-th CONTROL packet is written, with
\* the heartbeats still writing after it, there are eventually k replies.
C26_MockAnswersEveryControl ==
    \A c \in Conn :
        /\ [](ControlReplies(c) <= ControlsWritten(c))
        /\ \A k \in 1 .. MaxMockTx :
              (mock[c].state = "listening" /\ ControlsWritten(c) >= k /\ TxBudget)
              ~> (ControlReplies(c) >= k)

\* The packets the reader of d dispatches in this step.
NewDispatched(d) ==
    SubSeq(listener'[d].dispatched, Len(listener[d].dispatched) + 1, Len(listener'[d].dispatched))

\* A DATA packet whose sensor_id is not below the sensor count of device d.
IsStrayData(d, packet) ==
    /\ packet.header.packet_type = DATA
    /\ devices[d].cls = "SensorMonitor"
    /\ packet.sensor_id >= Len(devices[d].sensors)

\* C31: a step of the reader that processes only DATA readings whose
\* sensor_id is not below the device's sensor count changes no sensor buffer
\* and no times entry of the device, writes nothing (no NACK) on any socket,
\* and leaves the reader running and the registry as it was.
C31_StrayDataOnlyLogged ==
    [][\A d \in Objects :
          (/\ d <= Len(listener) /\ listener[d].state = "running"
           /\ NewDispatched(d) # << >>
           /\ \A i \in 1 .. Len(NewDispatched(d)) : IsStrayData(d, NewDispatched(d)[i]))
          => /\ devices'[d] = devices[d]
             /\ \A c \in Conn : sockets'[c].tx = sockets[c].tx
             /\ listener'[d].state = "running"
             /\ deviceRegistry' = deviceRegistry]_vars

\* C31 witness: the reader of a registered sensor monitor has processed a
\* DATA reading with a sensor_id past its sensors and is still running.
C31_Witness ==
    \E d \in Objects :
        /\ listener[d].state = "running"
        /\ devices[d].address \in DOMAIN deviceRegistry
        /\ deviceRegistry[devices[d].address] = d
        /\ \E i \in 1 .. Len(listener[d].dispatched) : IsStrayData(d, listener[d].dispatched[i])

\* The sensors a configuration declares, in declaration order over its five
\* sub-objects.
DeclaredSensors(k) ==
    ConfigDict(k).thermocouples \o ConfigDict(k).pressureTransducers
    \o ConfigDict(k).loadCells \o ConfigDict(k).current \o ConfigDict(k).resistance

\* C32: the sensors of a sensor monitor are the sensors its config declares,
\* each once, in declaration order over thermocouples, pressureTransducers,
\* loadCells, current and resistance; and a reader step that processes one
\* DATA reading with sensor_id i, i below the number of declared sensors,
\* appends the value to the data of the i-th declared sensor.
C32_SensorIdIsDeclarationOrder ==
    /\ [](\A d \in Objects :
             (devices[d].cls = "SensorMonitor" /\ "sensors" \in DOMAIN devices[d])
             => [i \in 1 .. Len(devices[d].sensors) |-> devices[d].sensors[i].name]
                = DeclaredSensors(devices[d].jsonConfig))
    /\ [][\A d \in Objects :
             (/\ d <= Len(listener) /\ listener[d].state = "running"
              /\ devices[d].cls = "SensorMonitor"
              /\ Len(NewDispatched(d)) = 1
              /\ NewDispatched(d)[1].header.packet_type = DATA
              /\ NewDispatched(d)[1].sensor_id < Len(DeclaredSensors(devices[d].jsonConfig)))
             => LET i == NewDispatched(d)[1].sensor_id + 1
                IN /\ i <= Len(devices'[d].sensors)
                   /\ devices'[d].sensors[i].name = DeclaredSensors(devices[d].jsonConfig)[i]
                   /\ devices'[d].sensors[i].data
                      = Append(devices[d].sensors[i].data, NewDispatched(d)[1].data)]_vars

\* C33: in every state another task can observe, each device in the registry
\* has its session reader task: the task was created and assigned to the
\* device's listenerTask in the step that inserted the device.
C33_RegisteredHasReaderTask ==
    \A a \in DOMAIN deviceRegistry :
        /\ devices[deviceRegistry[a]].listenerTask = deviceRegistry[a]
        /\ listener[deviceRegistry[a]].state # "none"

\* C33 witness: two devices are in the registry, one inserted by tcpListener
\* and one by connectToDevice, each with its reader task.
C33_Witness ==
    \E a \in DOMAIN deviceRegistry, b \in DOMAIN deviceRegistry :
        /\ a # b
        /\ sockets[devices[deviceRegistry[a]].socket].state = "accepted"
        /\ sockets[devices[deviceRegistry[b]].socket].state = "connected"
        /\ listener[deviceRegistry[a]].state # "none"
        /\ listener[deviceRegistry[b]].state # "none"

\* C34: the mapping getRegisteredDevices returned is a snapshot: a step in
\* which the caller adds or removes a key in it leaves the registry as it
\* was, and a step that changes the registry leaves the content of a mapping
\* returned earlier as it was.
C34_ReturnedMappingIsSnapshot ==
    [][/\ ((\E key \in Addr, d \in Objects : callerSetItem(key, d))
           \/ (\E key \in Addr : callerDelItem(key)))
          => deviceRegistry' = deviceRegistry
       /\ (/\ caller.op = "getRegisteredDevices"
           /\ caller'.op = "getRegisteredDevices"
           /\ ~ getRegisteredDevices
           /\ deviceRegistry' # deviceRegistry)
          => ReturnedMapping' = ReturnedMapping]_vars

\* C34 witness: the caller holds a mapping it has changed, and the registry
\* has changed since the call: neither has the other's keys.
C34_Witness ==
    /\ caller.op = "getRegisteredDevices"
    /\ \E a \in Addr : a \in DOMAIN ReturnedMapping /\ a \notin DOMAIN deviceRegistry
    /\ \E b \in Addr : b \in DOMAIN deviceRegistry /\ b \notin DOMAIN ReturnedMapping

\* The registered devices whose name is n.
RegisteredNamed(n) ==
    {d \in Objects : \E a \in DOMAIN deviceRegistry :
                        deviceRegistry[a] = d /\ devices[d].name = n}

\* C39: a call getDeviceByName(n) returns a registered device whose name is
\* n whenever the registry holds such a device, and None when no registered
\* device has that name.
C39_GetDeviceByNameFindsName ==
    [][\A n \in LookupNames :
          getDeviceByName(n)
          => IF RegisteredNamed(n) # {}
             THEN caller'.result \in RegisteredNamed(n)
             ELSE caller'.result = 0]_vars

\* The numbers of bytes at which a packet of the sequence msgs ends.
PacketEnds(msgs) == {Len(Concat(SubSeq(msgs, 1, j))) : j \in 0 .. Len(msgs)}

\* C35: a reader step that processes only STATUS packets and repeated CONFIG
\* packets leaves the registry and the device (its sensors, controls, data
\* buffers and times) unchanged, and it consumes the packets: when the reader
\* has received the bytes the device sent after its first CONFIG, the bytes
\* it has removed from its buffer end where a packet the device sent ends, so
\* that the packets behind are still dispatched.
C35_StatusAndConfigOnlyConsumed ==
    [][\A d \in Objects :
          (/\ d <= Len(listener) /\ listener[d].state = "running"
           /\ NewDispatched(d) # << >>
           /\ \A i \in 1 .. Len(NewDispatched(d)) :
                 NewDispatched(d)[i].header.packet_type \in {STATUS, CONFIG})
          => LET sent == Tail(devSent[devices[d].socket])
                 got == listener'[d].received
             IN /\ deviceRegistry' = deviceRegistry
                /\ devices'[d] = devices[d]
                /\ (Len(got) <= Len(Concat(sent)) /\ got = SubSeq(Concat(sent), 1, Len(got)))
                   => (Len(got) - Len(listener'[d].buffer)) \in PacketEnds(sent)]_vars

\* The reader of d takes its error path, or getSingle called with the device
\* handle d takes its write-failure path.
TeardownBy(d) ==
    \/ monitorRecvRaises(d)
    \/ getSingle(d) /\ SendRaises(devices[d].socket)

\* C36: when the error path of the reader of a device, or the write-failure
\* path of a command called with a device, removes the device's address
\* from the registry, the entry removed is that device: a newer device
\* registered under the same address is not removed by it.
C36_TeardownRemovesOwnEntry ==
    [][\A d \in Objects :
          (/\ TeardownBy(d)
           /\ devices[d].address \in DOMAIN deviceRegistry
           /\ devices[d].address \notin DOMAIN deviceRegistry')
          => deviceRegistry[devices[d].address] = d]_vars

\* C37: in every reachable state exportDataToCSV can write every row: for
\* each sensor monitor in the registry and each index below len(times),
\* every sensor of the device has a data value at that index.
C37_ExportCanWriteEveryRow == ~ exportDataToCSVRaises

\* The DATA packets with a sensor_id below the sensor count of d that the
\* reader of d has processed.
ValidDataProcessed(d) ==
    {i \in 1 .. Len(listener[d].dispatched) :
        /\ listener[d].dispatched[i].header.packet_type = DATA
        /\ listener[d].dispatched[i].sensor_id < Len(devices[d].sensors)}

\* C38: once the reader of a sensor monitor has processed a DATA packet with
\* a valid sensor_id, and after each further one, the length of the device's
\* times list is the largest length of a data list among its sensors.
C38_TimesIsLongestData ==
    \A d \in Objects :
        (/\ devices[d].cls = "SensorMonitor"
         /\ "sensors" \in DOMAIN devices[d]
         /\ ValidDataProcessed(d) # {})
        => /\ \A i \in 1 .. Len(devices[d].sensors) :
                 Len(devices[d].sensors[i].data) <= Len(devices[d].times)
           /\ \E i \in 1 .. Len(devices[d].sensors) :
                 Len(devices[d].sensors[i].data) = Len(devices[d].times)

\* C38 witness: the reader has processed a reading of the first sensor and
\* then a reading of the second, for which no sample time was added.
C38_Witness ==
    \E d \in Objects :
        /\ devices[d].cls = "SensorMonitor"
        /\ "sensors" \in DOMAIN devices[d]
        /\ Cardinality(ValidDataProcessed(d)) = 2
        /\ Len(devices[d].sensors) = 2
        /\ Len(devices[d].sensors[1].data) = 1
        /\ Len(devices[d].sensors[2].data) = 1
        /\ Len(devices[d].times) = 1

\* C40: the inner decode loop of the reader terminates for every buffer
\* content: each iteration removes at least one byte from the buffer or
\* leaves the loop, and a reader that has entered the loop is eventually
\* back at waiting on the socket.
C40_DecodeLoopTerminates ==
    /\ [][\A d \in Objects :
             (d <= Len(listener) /\ monitorDecodeStep(d))
             => \/ Len(listener'[d].buffer) < Len(listener[d].buffer)
                \/ listener'[d].state = "running"]_vars
    /\ \A d \in 1 .. (2 * MaxConn) :
          (d <= Len(listener) /\ listener[d].state = "decoding")
          ~> (d <= Len(listener) /\ listener[d].state = "running")

\* C40 witness: the reader is inside the loop after an iteration that
\* dropped one byte of a buffer it could not decode.
C40_Witness ==
    \E d \in Objects :
        /\ listener[d].state = "decoding"
        /\ listener[d].buffer # << >>
        /\ listener[d].dispatched = << >>
        /\ Len(listener[d].buffer) < Len(listener[d].received)

====
